---- MODULE Spec2Model ----
(***************************************************************************)
(* The publish pipeline of the registry (src/controllers/krate/publish.rs) *)
(* as a state machine: each in-flight `PUT /crates/new` request is a       *)
(* process that walks through the steps of `publish` in source order; the  *)
(* database tables, the job queue, the blob store and the rate-limit       *)
(* buckets are shared.  Writes made inside `conn.transaction` are buffered *)
(* in the request and applied by Commit, or dropped by a failure.          *)
(***************************************************************************)
EXTENDS Integers, Sequences, FiniteSets, TLC

\* ------------------------------------------------------------------ bounds
\* publish requests received in a behaviour
MaxRequests == 3
\* version numbers a request may ask for are 1..MaxVers
MaxVers == 2
\* burst size of every rate-limit bucket
Burst == 1
\* app.config.new_version_rate_limit = Some(DailyLimit)
DailyLimit == 2

\* the concurrent publish requests
Procs == {"p1", "p2"}
Versions == 1..MaxVers

\* ------------------------------------------------------------- the universe
Users == {"u1", "u2"}
Teams == {"t1"}
\* team membership as the GitHub collaborator reports it (static)
Members == [t \in Teams |-> {"u2"}]
\* the logins under which an owner request names the team
TeamLogins == {"github:Test-Org:Core", "github:test-org:core"}
\* the login the team carried before it was renamed on GitHub
OldLogin == "github:test-org:old-core"
\* the team GitHub answers for a login (GitHub compares logins without case)
github_team(login) == "t1"
\* names a request may carry
Names == {"foo", "Foo", "std"}
\* rows of reserved_crate_names
reserved_crate_names == {"std"}

NoUser == "anonymous"

\* canon_crate_name: lower-case, '-' folded to '_'
canon_crate_name(n) ==
    IF n = "Foo" THEN "foo" ELSE IF n = "Std" THEN "std" ELSE n

MISSING_RIGHTS_ERROR_MESSAGE == "this crate exists but you don't seem to be an owner"

\* ------------------------------------------------------------------- state
VARIABLES
    crates,        \* table crates: sequence of rows, the id of a row is its index
    versions,      \* table versions: sequence of rows
    dependencies,  \* table dependencies: sequence of rows
    jobs,          \* table background_jobs: sequence of pending jobs
    blobs,         \* app.storage: the paths of the stored objects
    tokens,        \* app.rate_limiter buckets: tokens[user][action]
    arrivals,      \* the number of publish requests received so far
    reqs,          \* the in-flight publish requests, one per process
    teams,         \* table teams: sequence of rows
    follows,       \* table follows: sequence of rows
    repo,          \* the index repository: its files, its head, the last change of each file
    replica,       \* app.storage: the contents of the stored index files, by path
    run            \* the upload-index run

\* the index repository, its copy in the store and the run that copies it
sync_vars == <<repo, replica, run>>

vars == <<crates, versions, dependencies, jobs, blobs, tokens, arrivals, reqs, teams,
          follows, repo, replica, run>>

\* LimitedAction
Actions == {"PublishNew", "PublishUpdate"}

\* a publish that uploads the archive once the transaction has committed
StepOrderUploadLast ==
    << "lookup", "auth", "ratelimit", "size", "unpack", "validate",
       "begin", "create", "rights", "namecheck", "daily", "save", "deps",
       "readme", "enqueue", "commit", "upload" >>

\* a publish that checks the archive before it asks the rate limiter
StepOrderSizeFirst ==
    << "lookup", "auth", "size", "unpack", "validate", "ratelimit",
       "begin", "create", "rights", "namecheck", "daily", "save", "deps",
       "readme", "upload", "enqueue", "commit" >>

\* a publish that validates the dependencies once the transaction is over
StepOrderDepsLast ==
    << "lookup", "auth", "ratelimit", "size", "unpack", "validate",
       "begin", "create", "rights", "namecheck", "daily", "save",
       "readme", "upload", "enqueue", "commit", "deps" >>

\* the steps of `publish`, in source order
StepOrder ==
    << "lookup", "auth", "ratelimit", "size", "unpack", "validate",
       "begin", "create", "rights", "namecheck", "daily", "save", "deps",
       "readme", "upload", "enqueue", "commit" >>

StepIndex(s) == CHOOSE i \in 1..Len(StepOrder) : StepOrder[i] = s

After(s) ==
    IF StepIndex(s) = Len(StepOrder) THEN "done" ELSE StepOrder[StepIndex(s) + 1]

\* the package section of a manifest that declares nothing
NoManifest ==
    [ description |-> {}, license |-> {}, license_file |-> {}, homepage |-> {},
      documentation |-> {}, repository |-> {}, keywords |-> << >>, categories |-> << >> ]

\* a request that has not arrived yet
Idle ==
    [ pc |-> "idle", name |-> "", user |-> NoUser, vers |-> 0,
      existing_crate |-> 0, in_tx |-> FALSE, locked |-> FALSE,
      krate |-> 0, created |-> FALSE, deps |-> << >>, edges |-> << >>,
      readme |-> FALSE,
      sync |-> FALSE, result |-> "", debit |-> "none", put |-> "none",
      steps |-> << >>, crate_max |-> {}, content_length |-> 0,
      body |-> << >>, tarball_bytes |-> << >>,
      manifest |-> NoManifest, license |-> {}, warnings |-> << >> ]

\* str::to_lowercase, on the logins in use
to_lowercase(login) ==
    IF login = "github:Test-Org:Core" THEN "github:test-org:core" ELSE login

\* a team row that keeps the login as the request spelled it
NewTeam_as_given(login, t) == [login |-> login, github_id |-> t]

\* NewTeam::new, called with the lower-cased login
NewTeam(login, t) == [login |-> to_lowercase(login), github_id |-> t]

\* the upload-index command before it is started
IdleRun ==
    [ pc |-> "idle", incremental_commit |-> {}, head |-> 0, files |-> << >>, pos |-> 0,
      contents |-> << >>, uploaded |-> << >>, skipped |-> {}, error |-> "",
      checkpoint |-> {}, tree |-> << >>, attempt |-> 0 ]

\* the tables, the store, the limiter, the index and the processes at start-up
InitTables ==
    /\ crates = << >>
    /\ versions = << >>
    /\ dependencies = << >>
    /\ jobs = << >>
    /\ blobs = {}
    /\ tokens = [u \in Users |-> [a \in Actions |-> Burst]]
    /\ arrivals = 0
    /\ reqs = [p \in Procs |-> Idle]
    /\ follows = << >>
    /\ repo = [files |-> << >>, head |-> 0, changed |-> << >>]
    /\ replica = << >>
    /\ run = IdleRun

\* the team's row exists with its current login: the team was made an owner
\* of some other package before
Init ==
    /\ InitTables
    /\ teams = << NewTeam("github:test-org:core", "t1") >>

\* the team is unknown, or known under the login it carried before the rename
InitTeams ==
    /\ InitTables
    /\ teams \in {<< >>, << NewTeam(OldLogin, "t1") >>}

\* ----------------------------------------------------------------- helpers
\* the ids of a sequence-table's rows
Ids(table) == DOMAIN table

Min(S) == CHOOSE x \in S : \A y \in S : x <= y

\* Crate::by_name(name).first(conn).optional(): canonicalized match, 0 for None
by_name(n) ==
    LET hits == {i \in Ids(crates) : canon_crate_name(crates[i].name) = canon_crate_name(n)}
    IN  IF hits = {} THEN 0 ELSE Min(hits)

\* Crate::by_exact_name(name).first(conn): identical names only, 0 for Err
by_exact_name(n) ==
    LET hits == {i \in Ids(crates) : crates[i].name = n}
    IN  IF hits = {} THEN 0 ELSE Min(hits)

\* a check that compares the names as they are written
is_reserved_name_exact(n) == n \in reserved_crate_names

\* lines 384-389
is_reserved_name(n) ==
    \E r \in reserved_crate_names : canon_crate_name(r) = canon_crate_name(n)

\* Rights, ordered None < Read < Publish
RightsNone == 0
RightsRead == 1
RightsPublish == 2

\* user.rights(&app, &owners)
rights(user, owners) ==
    IF user \in owners.users THEN RightsPublish
    ELSE IF \E t \in owners.teams : user \in Members[t] THEN RightsPublish
    ELSE RightsNone

\* lines 199-207: the columns NewCrate writes besides the name (the readme
\* as whether a non-empty one came)
NewCrate(r) ==
    [ description |-> r.manifest.description, homepage |-> r.manifest.homepage,
      documentation |-> r.manifest.documentation, readme |-> r.readme,
      repository |-> r.manifest.repository ]

\* a create that records no owner
NewRowNoOwner(r) ==
    [name |-> r.name, users |-> {}, teams |-> {}, max_upload_size |-> {},
     metadata |-> NewCrate(r)]

\* line 218: the row persist.create inserts
NewRow(r) ==
    [name |-> r.name, users |-> {r.user}, teams |-> {}, max_upload_size |-> {},
     metadata |-> NewCrate(r)]

\* line 220: persist.update writes the columns of NewCrate to the row
update(row, r) == [row EXCEPT !.metadata = NewCrate(r)]

\* what a request sees of the crate it resolved inside its transaction: the
\* row it inserted itself or the committed row with its own update, neither
\* of them committed yet
TxCrate(r) == IF r.created THEN NewRow(r) ELSE update(crates[r.krate], r)

\* an update of the crate that is made outside the transaction and so
\* outlives its failure
rolled_back_but_update(r, rows) ==
    IF r.locked /\ ~r.created /\ r.krate \in DOMAIN rows
    THEN [rows EXCEPT ![r.krate] = update(@, r)] ELSE rows

\* line 190: conn.transaction drops every write of a closure that returns
\* an error: the table is as committed
rolled_back(r, rows) == rows

\* krate.owners(conn)
owners(r) == [users |-> TxCrate(r).users, teams |-> TxCrate(r).teams]

\* versions of the resolved crate visible to the request
VersionsOf(id) == {i \in Ids(versions) : versions[i].crate_id = id}

count_versions_published_today(r) ==
    IF r.created THEN 0 ELSE Cardinality(VersionsOf(r.krate))

\* a limiter whose debit is undone when the request fails
TokensAfterErrorRefund(r) ==
    IF r.debit = "none" THEN tokens
    ELSE [tokens EXCEPT ![r.user][r.debit] = IF @ < Burst THEN @ + 1 ELSE @]

\* the buckets after a request has failed: the debit was made on `conn`
\* before `conn.transaction` was entered, so nothing gives the token back
TokensAfterError(r) == tokens

\* what is kept of a request once its response is sent
Done(r, s, msg) ==
    [Idle EXCEPT !.pc = "done", !.result = msg, !.name = r.name, !.vers = r.vers,
                 !.created = r.created, !.debit = r.debit, !.put = r.put,
                 !.crate_max = r.crate_max, !.content_length = r.content_length,
                 !.body = r.body, !.manifest = r.manifest,
                 !.warnings = IF msg = "ok" THEN r.warnings ELSE << >>,
                 !.edges = r.edges,
                 !.steps = Append(r.steps, s)]

\* a request moves on from step s / ends with an error at step s
Ok(r, s) ==
    IF After(s) = "done" THEN Done(r, s, "ok")
    ELSE [r EXCEPT !.pc = After(s), !.steps = Append(@, s)]

Err(r, s, msg) == Done(r, s, msg)

Put(p, r) == reqs' = [reqs EXCEPT ![p] = r]

\* a step that touches only the request: it either fails with msg or moves on
Local(p, s, failed, msg, r) ==
    /\ IF failed
          THEN /\ Put(p, Err(r, s, msg)) /\ tokens' = TokensAfterError(r)
               /\ crates' = rolled_back(r, crates)
          ELSE Put(p, Ok(r, s)) /\ UNCHANGED <<tokens, crates>>
    /\ UNCHANGED <<versions, dependencies, jobs, blobs, arrivals, teams, follows, sync_vars>>

\* ------------------------------------------------- publish, before the transaction
\* line 102: existing_crate.and_then(|c| c.max_upload_size), an Option
\* written as a set with at most one element
existing_max_upload_size(n) ==
    IF by_name(n) = 0 THEN {} ELSE crates[by_name(n)].max_upload_size

\* Buf::get_u32_le: the first four bytes as a little-endian number
get_u32_le(bytes) ==
    bytes[1] + 256 * bytes[2] + 65536 * bytes[3] + 16777216 * bytes[4]

\* the bytes from the k-th on
From(bytes, k) == SubSeq(bytes, k, Len(bytes))

\* a length test that also refuses a part that fills the payload exactly
exceeds_remaining_inclusive(len, remaining) == len >= Len(remaining)

\* lines 359 and 373: the announced length is more than what is left
exceeds_remaining(len, remaining) == len > Len(remaining)

SplitErr(msg) == [error |-> msg, json_bytes |-> << >>, tarball_bytes |-> << >>]

\* lines 345-382: split_body
split_body(bytes) ==
    IF Len(bytes) < 4 THEN SplitErr("invalid metadata length")
    ELSE
    LET json_len == get_u32_le(bytes)
        rest     == From(bytes, 5)
    IN
    IF exceeds_remaining(json_len, rest)
    THEN SplitErr("invalid metadata length for remaining payload: " \o ToString(json_len))
    ELSE
    LET json_bytes == SubSeq(rest, 1, json_len)
        rest2      == From(rest, json_len + 1)
    IN
    IF Len(rest2) < 4 THEN SplitErr("invalid tarball length")
    ELSE
    LET tarball_len == get_u32_le(rest2)
        rest3       == From(rest2, 5)
    IN
    IF exceeds_remaining(tarball_len, rest3)
    THEN SplitErr("invalid tarball length for remaining payload: " \o ToString(tarball_len))
    ELSE [ error |-> "", json_bytes |-> json_bytes,
           tarball_bytes |-> SubSeq(rest3, 1, tarball_len) ]

\* line 52: serde_json::from_slice. Byte 1 stands for the text of a
\* well-formed metadata document, any other byte for text that is not
\* one; the fields of the document are drawn where they are first read
from_slice_ok(json_bytes) == json_bytes = << 1 >>

\* lines 49-72: the request arrives, its body is split and parsed (an error
\* of split_body or of the JSON parser ends it) and the crate is looked up
\* by name
Lookup(p, D) ==
    /\ reqs[p].pc \in {"idle", "done"}
    /\ arrivals < MaxRequests
    /\ arrivals' = arrivals + 1
    /\ \E n \in D.names, body \in D.bodies :
         LET parts == split_body(body)
             r     == [Idle EXCEPT !.body = body]
         IN
         IF parts.error # ""
            THEN Put(p, Err(r, "lookup", parts.error))
         ELSE IF ~from_slice_ok(parts.json_bytes)
            THEN Put(p, Err(r, "lookup", "invalid upload request"))
         ELSE Put(p, Ok([r EXCEPT !.pc = "lookup", !.name = n,
                                  !.tarball_bytes = parts.tarball_bytes,
                                  !.existing_crate = by_name(n),
                                  !.crate_max = existing_max_upload_size(n)],
                        "lookup"))
    /\ UNCHANGED <<crates, versions, dependencies, jobs, blobs, tokens, teams, follows, sync_vars>>

\* lines 74-89: AuthCheck, then the verified email address
Auth(p, D) ==
    LET r == reqs[p] IN
    /\ r.pc = "auth"
    /\ \E u \in D.users, verified \in D.verified :
         IF u = NoUser
           THEN Local(p, "auth", TRUE, "this action requires authentication", r)
           ELSE Local(p, "auth", ~verified,
                      "A verified email address is required to publish crates to crates.io",
                      [r EXCEPT !.user = u])

\* a limiter asked about one and the same action for every publish
rate_limit_action_single(r) == "PublishNew"

\* lines 91-95
rate_limit_action(r) ==
    IF r.existing_crate # 0 THEN "PublishUpdate" ELSE "PublishNew"

\* lines 96-97: check_rate_limit debits one token or fails
RateLimit(p) ==
    LET r == reqs[p]
        a == rate_limit_action(r)
    IN
    /\ r.pc = "ratelimit"
    /\ IF tokens[r.user][a] > 0
          THEN /\ tokens' = [tokens EXCEPT ![r.user][a] = @ - 1]
               /\ Put(p, Ok([r EXCEPT !.debit = a], "ratelimit"))
          ELSE /\ tokens' = TokensAfterError(r)
               /\ Put(p, Err(r, "ratelimit", "You have published too many crates in a short period of time"))
    /\ UNCHANGED <<crates, versions, dependencies, jobs, blobs, arrivals, teams, follows, sync_vars>>

\* app.config.max_upload_size
max_upload_size == 1

\* lines 101-105: Maximums::new, the override of the existing crate if it has
\* one and the configured limit otherwise
maximums(r) ==
    IF r.crate_max = {} THEN max_upload_size ELSE CHOOSE n \in r.crate_max : TRUE

\* a check that also refuses an archive as long as the limit
too_long_inclusive(content_length, limit) == content_length >= limit

\* line 107
too_long(content_length, limit) == content_length > limit

max_upload_error(limit) == "max upload size is: " \o ToString(limit)

\* lines 99-112
Size(p) ==
    /\ reqs[p].pc = "size"
    /\ LET content_length == Len(reqs[p].tarball_bytes) IN
         Local(p, "size", too_long(content_length, maximums(reqs[p])),
               max_upload_error(maximums(reqs[p])),
               [reqs[p] EXCEPT !.content_length = content_length])

\* lines 114-115: process_tarball
Unpack(p, D) ==
    /\ reqs[p].pc = "unpack"
    /\ \E malformed \in D.malformed :
         Local(p, "unpack", malformed,
               "uploaded tarball is malformed or too large when decompressed", reqs[p])

\* lines 130-132: empty, on an Option written as a set with at most one element
empty(s) == s = {} \/ s = {""}

\* a check that asks for a license expression even when a license file came
missing_fields_license_only(m) ==
    (IF empty(m.description) THEN << "description" >> ELSE << >>)
        \o (IF empty(m.license) THEN << "license" >> ELSE << >>)

\* lines 134-141: the names of the required fields that did not come
missing_fields(m) ==
    (IF empty(m.description) THEN << "description" >> ELSE << >>)
        \o (IF empty(m.license) /\ empty(m.license_file) THEN << "license" >> ELSE << >>)

\* [&str]::join
RECURSIVE join(_, _)
join(words, sep) ==
    IF words = << >> THEN ""
    ELSE IF Len(words) = 1 THEN words[1]
    ELSE words[1] \o sep \o join(Tail(words), sep)

\* lines 410-417
missing_metadata_error_message(missing) ==
    "missing or empty metadata fields: " \o join(missing, ", ")
        \o ". Please see https://doc.rust-lang.org/cargo/reference/manifest.html"
        \o " for how to upload metadata"

\* lines 37-39
LICENSE_ERROR ==
    "unknown or invalid license expression; see http://opensource.org/licenses"
        \o " for options, and http://spdx.org/licenses/ for their identifiers"

\* parse_license_expr succeeds: the expression is one of the license
\* expressions in use
parse_license_expr(license) == license \in {"MIT", "MIT OR Apache-2.0"}

\* lines 146-148: the error of the license expression, "" for none
license_error(m) ==
    IF m.license # {} /\ ~(\A l \in m.license : parse_license_expr(l))
    THEN LICENSE_ERROR ELSE ""

\* lines 146-154: the license handed to NewVersion, an Option
license_of(m) ==
    IF m.license # {} THEN m.license
    ELSE IF m.license_file # {} THEN {"non-standard"}
    ELSE {}

\* str::starts_with("http://") || str::starts_with("https://"), on the urls in use
starts_with_http(url) == url \in {"https://foo.rs", "https://"}

\* Url::parse succeeds, on the urls in use
Url_parse(url) == url = "https://foo.rs"

\* lines 391-408: validate_url, "" for Ok
validate_url(url, field) ==
    IF url = {} THEN ""
    ELSE LET u == CHOOSE x \in url : TRUE IN
         IF ~starts_with_http(u)
         THEN "URL for field '" \o field \o "' must begin with http:// or https:// (url: "
                  \o u \o ")"
         ELSE IF ~Url_parse(u) THEN "'" \o field \o "' is not a valid url: '" \o u \o "'"
         ELSE ""

\* lines 156-158: the first url that is refused
urls_error(m) ==
    IF validate_url(m.homepage, "homepage") # "" THEN validate_url(m.homepage, "homepage")
    ELSE IF validate_url(m.documentation, "documentation") # ""
    THEN validate_url(m.documentation, "documentation")
    ELSE validate_url(m.repository, "repository")

\* a limit that also refuses a list of five
too_many_inclusive(list) == Len(list) >= 5

\* lines 165 and 184: keywords.len() > 5, categories.len() > 5
too_many(list) == Len(list) > 5

\* a limit that also refuses a keyword of twenty characters
too_long_keyword_inclusive(keyword) == Len(keyword) >= 20

\* line 170: keyword.len() > 20
too_long_keyword(keyword) == Len(keyword) > 20

\* Keyword::valid_name, on the keywords in use
valid_name(keyword) == keyword \notin {"", "?"}

\* lines 169-178: the error of the first keyword that is refused, "" for none
RECURSIVE keyword_error(_)
keyword_error(keywords) ==
    IF keywords = << >> THEN ""
    ELSE LET keyword == Head(keywords) IN
         IF too_long_keyword(keyword)
         THEN "\"" \o keyword
                  \o "\" is an invalid keyword (keywords must have less than 20 characters)"
         ELSE IF ~valid_name(keyword) THEN "\"" \o keyword \o "\" is an invalid keyword"
         ELSE keyword_error(Tail(keywords))

\* lines 129-186: the first error of the manifest, "" for none
metadata_error(m) ==
    IF missing_fields(m) # << >> THEN missing_metadata_error_message(missing_fields(m))
    ELSE IF license_error(m) # "" THEN license_error(m)
    ELSE IF urls_error(m) # "" THEN urls_error(m)
    ELSE IF too_many(m.keywords) THEN "expected at most 5 keywords per crate"
    ELSE IF keyword_error(m.keywords) # "" THEN keyword_error(m.keywords)
    ELSE IF too_many(m.categories) THEN "expected at most 5 categories per crate"
    ELSE ""

\* lines 117-186: the package section of the manifest is read and checked
Validate(p, D) ==
    /\ reqs[p].pc = "validate"
    /\ \E m \in D.manifests :
         Local(p, "validate", metadata_error(m) # "", metadata_error(m),
               [reqs[p] EXCEPT !.manifest = m, !.license = license_of(m)])

\* --------------------------------------------------- publish, the transaction
\* a failure that leaves the jobs enqueued so far in the queue
AbortKeepsJobs(p, s, msg) ==
    /\ Put(p, Err(reqs[p], s, msg))
    /\ tokens' = TokensAfterError(reqs[p])
    /\ jobs' = jobs \o
           (IF reqs[p].readme
               THEN <<[kind |-> "render_and_upload_readme", krate |-> reqs[p].name,
                       vers |-> reqs[p].vers]>>
               ELSE << >>)
    /\ UNCHANGED <<crates, versions, dependencies, blobs, arrivals, teams, follows, sync_vars>>

\* a failure inside (or outside) the transaction: the buffered writes are dropped
Abort(p, s, msg) ==
    /\ Put(p, Err(reqs[p], s, msg))
    /\ tokens' = TokensAfterError(reqs[p])
    /\ crates' = rolled_back(reqs[p], crates)
    /\ UNCHANGED <<versions, dependencies, jobs, blobs, arrivals, teams, follows, sync_vars>>

\* a step that only changes what the request has buffered
Buffer(p, s, r) ==
    /\ Put(p, Ok(r, s))
    /\ UNCHANGED <<crates, versions, dependencies, jobs, blobs, tokens, arrivals, teams, follows, sync_vars>>

\* lines 188-214: conn.transaction is entered, reserved names are refused
Begin(p) ==
    LET r == [reqs[p] EXCEPT !.in_tx = TRUE] IN
    /\ reqs[p].pc = "begin"
    /\ Local(p, "begin", is_reserved_name(r.name),
             "cannot upload a crate with a reserved name", r)

\* the row of the crate named like r's is not locked by another open
\* transaction (an uncommitted insert or update of it makes this one wait)
RowFree(p) ==
    \A q \in Procs \ {p} :
        ~(reqs[q].locked /\ canon_crate_name(reqs[q].name) = canon_crate_name(reqs[p].name))

\* a create decided by the lookup made before the transaction
InsertWinsSnapshot(r) == r.existing_crate = 0

\* line 218: persist.create(conn, user.id).optional() is Some: the insert
\* found no row with this canonical name
InsertWins(r) == by_name(r.name) = 0

\* lines 199-221: the readme of the request goes into NewCrate; insert
\* first, fall back to update
Create(p, D) ==
    LET r == reqs[p] IN
    /\ r.pc = "create"
    /\ RowFree(p)
    /\ \E readme \in D.readme :
         Buffer(p, "create",
                [r EXCEPT !.locked = TRUE, !.created = InsertWins(r), !.readme = readme,
                          !.krate = IF InsertWins(r) THEN 0 ELSE by_name(r.name)])

\* rights that trust the lookup made before the transaction: a name that was
\* free then may be published by anyone
publish_rights_snapshot(r) ==
    IF r.existing_crate = 0 THEN RightsPublish ELSE rights(r.user, owners(r))

\* rights that never consult the owning teams
publish_rights_users_only(r) ==
    IF r.user \in owners(r).users THEN RightsPublish ELSE RightsNone

\* line 224: the rights of the publishing user over the resolved crate
publish_rights(r) == rights(r.user, owners(r))

\* a check that asks for more than Publish
MayPublishStrict(level) == level > RightsPublish

\* line 224: user.rights(..) < Rights::Publish is an error
MayPublish(level) == ~(level < RightsPublish)

\* lines 223-226
Rights(p) ==
    /\ reqs[p].pc = "rights"
    /\ Local(p, "rights", ~MayPublish(publish_rights(reqs[p])),
             MISSING_RIGHTS_ERROR_MESSAGE, reqs[p])

\* a publish that accepts any spelling of the crate's name
name_error_ignored(stored, name) == ""

\* lines 228-233: the error of a name that is not the stored one, "" for
\* none (the message sets the name between backquotes, written ' here)
name_error(stored, name) ==
    IF stored # name THEN "crate was previously named '" \o stored \o "'" ELSE ""

\* lines 228-233
NameCheck(p) ==
    LET msg == name_error(TxCrate(reqs[p]).name, reqs[p].name) IN
    /\ reqs[p].pc = "namecheck"
    /\ Local(p, "namecheck", msg # "", msg, reqs[p])

\* a limit that lets one more version through
over_daily_limit_strict(published_today) == published_today > DailyLimit

\* line 237: published_today >= daily_version_limit
over_daily_limit(published_today) == published_today >= DailyLimit

\* lines 235-242
Daily(p) ==
    /\ reqs[p].pc = "daily"
    /\ Local(p, "daily", over_daily_limit(count_versions_published_today(reqs[p])),
             "You have published too many versions of this crate in the last 24 hours",
             reqs[p])

\* NewVersion::save: the (crate_id, num) pair is unique in versions
version_exists(r, v) ==
    ~r.created /\ \E i \in VersionsOf(r.krate) : versions[i].num = v

\* a save whose error is dropped
SaveNeverFails(r, v) == FALSE

\* lines 250-263: the error of NewVersion::new(..)?.save(..)? ends the request
SaveFails(r, v) == version_exists(r, v)

\* EncodableCrateDependency: the fields add_dependencies looks at
DepSpecs == [name : {"foo", "Foo"}, version_req : {"*", "^1"}, registry : {"", "alt"}]

\* the dependency lists a request may declare
MaxDeps == 2

DepLists == UNION {[1..n -> DepSpecs] : n \in 0..MaxDeps}

Dep(n, version_req, registry) ==
    [name |-> n, version_req |-> version_req, registry |-> registry]

\* no dependency, a good one, and one for each error of add_dependencies
SampleDepLists ==
    { << >>, <<Dep("foo", "^1", "")>>, <<Dep("foo", "*", "")>>,
      <<Dep("Foo", "^1", "")>>, <<Dep("foo", "^1", "alt")>> }

\* lines 249-271: persist the new version; metadata.deps is read at line 274
Save(p, D) ==
    /\ reqs[p].pc = "save"
    /\ \E v \in D.versions, deps \in D.deps :
         Local(p, "save", SaveFails(reqs[p], v), "crate version is already uploaded",
               [reqs[p] EXCEPT !.vers = v, !.deps = deps])

\* Crate::by_exact_name seen from inside the transaction of r
tx_by_exact_name(r, n) ==
    IF r.created /\ n = r.name THEN TRUE ELSE by_exact_name(n) # 0

\* a validation without the wildcard check
dep_error_wildcard_allowed(r, dep) ==
    IF dep.registry # "" THEN "Cross-registry dependencies are not permitted"
    ELSE IF ~tx_by_exact_name(r, dep.name) THEN "no known crate named"
    ELSE ""

\* lines 430-449: the error of one declared dependency, "" for none
dep_error(r, dep) ==
    IF dep.registry # "" THEN "Cross-registry dependencies are not permitted"
    ELSE IF ~tx_by_exact_name(r, dep.name) THEN "no known crate named"
    ELSE IF dep.version_req = "*" THEN "wildcard dependency constraints are not allowed"
    ELSE ""

\* lines 428-463: collect::<Result<Vec<_>, _>>() stops at the first error
RECURSIVE first_dep_error(_, _)
first_dep_error(r, deps) ==
    IF deps = << >> THEN ""
    ELSE IF dep_error(r, Head(deps)) # "" THEN dep_error(r, Head(deps))
    ELSE first_dep_error(r, Tail(deps))

\* lines 451-461: the row of one dependency (the crate is named here and its
\* id is filled in when the rows are committed)
dep_row(dep) == [name |-> dep.name, req |-> dep.version_req]

\* the rows of the dependencies declared before the first bad one
RECURSIVE valid_prefix(_, _)
valid_prefix(r, deps) ==
    IF deps = << >> \/ dep_error(r, Head(deps)) # "" THEN << >>
    ELSE <<dep_row(Head(deps))>> \o valid_prefix(r, Tail(deps))

\* an add_dependencies that inserts each row as soon as it is validated
add_dependencies_eager(r, deps) ==
    [error |-> first_dep_error(r, deps), inserted |-> valid_prefix(r, deps)]

\* lines 419-470: the error, if any, and the rows inserted: all of them by
\* the one insert_into of lines 465-467, which an error does not reach
add_dependencies(r, deps) ==
    [ error    |-> first_dep_error(r, deps),
      inserted |-> IF first_dep_error(r, deps) # "" THEN << >>
                   ELSE [k \in DOMAIN deps |-> dep_row(deps[k])] ]

\* the slugs of the categories table
Categories == {"c1", "c2", "c3", "c4", "c5", "c6"}

\* Category::update_crate: the slugs that are no category are handed back
Category_update_crate(slugs) == SelectSeq(slugs, LAMBDA slug : slug \notin Categories)

\* lines 273-281: add_dependencies(conn, &metadata.deps, version.id)?, then
\* the keywords and the categories of the crate are updated
Deps(p) ==
    LET r   == reqs[p]
        res == add_dependencies(r, r.deps)
    IN
    /\ r.pc = "deps"
    /\ Local(p, "deps", res.error # "", res.error,
             [r EXCEPT !.edges = res.inserted,
                       !.warnings = Category_update_crate(r.manifest.categories)])

\* lines 287-300: the readme job is enqueued when a non-empty readme came
Readme(p) ==
    /\ reqs[p].pc = "readme"
    /\ Buffer(p, "readme", reqs[p])

\* the path of a crate file in the store: crates/{name}/{name}-{vers}.crate
crate_location(name, vers) ==
    "crates/" \o name \o "/" \o name \o "-" \o ToString(vers) \o ".crate"

\* lines 302-309: app.storage.upload_crate_file
Upload(p, D) ==
    LET r == reqs[p] IN
    /\ r.pc = "upload"
    /\ \E stored \in D.stored :
         IF stored
           THEN /\ blobs' = blobs \cup {crate_location(TxCrate(r).name, r.vers)}
                /\ Put(p, Ok([r EXCEPT !.put = IF r.in_tx THEN "open" ELSE "closed"],
                              "upload"))
                /\ UNCHANGED <<crates, versions, dependencies, jobs, tokens, arrivals, teams, follows, sync_vars>>
           ELSE Abort(p, "upload", "failed to upload crate")

\* a publish that forgets to enqueue the index-sync job
EnqueueSkipped(p) ==
    /\ reqs[p].pc = "enqueue"
    /\ Buffer(p, "enqueue", reqs[p])

\* line 311: Job::enqueue_sync_to_index
Enqueue(p) ==
    /\ reqs[p].pc = "enqueue"
    /\ Buffer(p, "enqueue", [reqs[p] EXCEPT !.sync = TRUE])

\* the jobs a request has enqueued, in the order of its enqueues
PendingJobs(r) ==
    (IF r.readme
        THEN <<[kind |-> "render_and_upload_readme", krate |-> r.name, vers |-> r.vers]>>
        ELSE << >>)
    \o (IF r.sync THEN <<[kind |-> "sync_to_index", krate |-> r.name]>> ELSE << >>)

\* line 326: the closure returned Ok, the transaction commits what it wrote
Commit(p) ==
    LET r  == reqs[p]
        id == IF r.created THEN Len(crates) + 1 ELSE r.krate
        cs == IF r.created THEN Append(crates, NewRow(r))
              ELSE [crates EXCEPT ![r.krate] = update(@, r)]
        dep_id(n) == CHOOSE i \in DOMAIN cs : cs[i].name = n
    IN
    /\ r.pc = "commit"
    /\ crates' = cs
    /\ versions' = IF r.vers # 0
                      THEN Append(versions, [crate_id |-> id, num |-> r.vers,
                                             license |-> r.license])
                      ELSE versions
    /\ dependencies' = dependencies \o
                           [k \in DOMAIN r.edges |->
                               [version_id |-> Len(versions) + 1,
                                crate_id |-> dep_id(r.edges[k].name),
                                req |-> r.edges[k].req]]
    /\ jobs' = jobs \o PendingJobs(r)
    /\ Put(p, Ok([r EXCEPT !.in_tx = FALSE, !.locked = FALSE, !.krate = id], "commit"))
    /\ UNCHANGED <<blobs, tokens, arrivals, teams, follows, sync_vars>>

\* ------------------------------------------------------------ owner changes
\* modify_owners: only an individual owner may change the owners
\* a rule that lets the members of an owning team change the owners
modify_owners_error_lenient(actor, krate) ==
    IF actor \in krate.users \/ \E t \in krate.teams : actor \in Members[t] THEN ""
    ELSE "only owners have permission to modify owners"

modify_owners_error(actor, krate) ==
    IF actor \in krate.users THEN ""
    ELSE IF \E t \in krate.teams : actor \in Members[t]
      THEN "team members don't have permission to modify owners"
    ELSE "only owners have permission to modify owners"

\* the owners of krate once login is removed
owner_remove(krate, login) ==
    [krate EXCEPT !.users = @ \ {login}, !.teams = @ \ {login}]

\* the response to PUT /crates/:name/owners with a user login
add_user_response(actor, krate, u) ==
    IF modify_owners_error(actor, krate) # "" THEN modify_owners_error(actor, krate)
    ELSE "ok"

\* the response to PUT /crates/:name/owners with a team login
add_team_response(actor, krate, t) ==
    IF modify_owners_error(actor, krate) # "" THEN modify_owners_error(actor, krate)
    ELSE IF actor \notin Members[t]
      THEN "only members of a team or organization owners can add it as an owner"
    ELSE "ok"

\* the response to DELETE /crates/:name/owners
remove_owner_response(actor, krate, login) ==
    IF modify_owners_error(actor, krate) # "" THEN modify_owners_error(actor, krate)
    ELSE IF login \notin krate.users \cup krate.teams THEN "could not find owner"
    ELSE IF owner_remove(krate, login).users = {}
      THEN "cannot remove all individual owners of a crate"
    ELSE "ok"

\* an owner change is one transaction: a request that is answered with an
\* error changes nothing
OwnerChange(id, resp, row, team_rows) ==
    /\ resp = "ok"
    /\ crates' = [crates EXCEPT ![id] = row]
    /\ teams' = team_rows
    /\ UNCHANGED <<versions, dependencies, jobs, blobs, tokens, arrivals, reqs, follows, sync_vars>>

\* NewTeam::create_or_update: insert, and on a conflict on the GitHub id
\* update the login of the row that holds it
create_or_update(table, row) ==
    IF \E k \in DOMAIN table : table[k].github_id = row.github_id
    THEN [k \in DOMAIN table |->
            IF table[k].github_id = row.github_id
            THEN [table[k] EXCEPT !.login = row.login] ELSE table[k]]
    ELSE Append(table, row)

\* Team::find_by_login: the rows whose login equals the given one, case ignored
find_by_login(table, login) ==
    {k \in DOMAIN table : to_lowercase(table[k].login) = to_lowercase(login)}

OwnerAddUser(actor, id, u) ==
    OwnerChange(id, add_user_response(actor, crates[id], u),
                [crates[id] EXCEPT !.users = @ \cup {u}], teams)

OwnerAddTeam(actor, id, t) ==
    \E login \in {l \in TeamLogins : github_team(l) = t} :
        OwnerChange(id, add_team_response(actor, crates[id], t),
                    [crates[id] EXCEPT !.teams = @ \cup {t}],
                    create_or_update(teams, NewTeam(login, t)))

OwnerRemove(actor, id, login) ==
    OwnerChange(id, remove_owner_response(actor, crates[id], login),
                owner_remove(crates[id], login), teams)

\* remove a team owner named by its login
OwnerRemoveTeam(actor, id, login) ==
    \E k \in find_by_login(teams, login) :
        OwnerRemove(actor, id, teams[k].github_id)

\* ---------------------------------------------------------- background jobs
\* the name in lower case
lowercase(n) == IF n = "Foo" THEN "foo" ELSE n

\* the directory of a crate's index file, for the three-letter names used
\* here: 3/{first letter}
IndexShard == [foo |-> "3/f", std |-> "3/s", bar |-> "3/b", baz |-> "3/b"]

\* the path of a crate's index file in the store: index/{shard}/{name}
index_location(n) == "index/" \o IndexShard[lowercase(n)] \o "/" \o lowercase(n)

\* the path of a rendered readme in the store
readme_location(name, vers) ==
    "readmes/" \o name \o "/" \o name \o "-" \o ToString(vers) \o ".html"

\* what running a job stores
job_output(job) ==
    IF job.kind = "sync_to_index" THEN index_location(job.krate)
    ELSE readme_location(job.krate, job.vers)

\* the function f with k mapped to v / without k
Assign(f, k, v) == [x \in DOMAIN f \cup {k} |-> IF x = k THEN v ELSE f[x]]

Drop(f, k) == [x \in DOMAIN f \ {k} |-> f[x]]

\* the lines of a crate's index file: one record per version of the crate,
\* in publish order, each written here as the version's number
RECURSIVE version_lines(_, _)
version_lines(rows, id) ==
    IF rows = << >> THEN << >>
    ELSE (IF Head(rows).crate_id = id THEN <<Head(rows).num>> ELSE << >>)
         \o version_lines(Tail(rows), id)

index_contents(name) == version_lines(versions, by_exact_name(name))

\* a commit that writes file f of the index repository
commit_file(r, f, contents) ==
    [ files   |-> Assign(r.files, f, contents),
      head    |-> r.head + 1,
      changed |-> Assign(r.changed, f, r.head + 1) ]

\* a commit that deletes file f of the index repository
commit_delete(r, f) ==
    [ files   |-> Drop(r.files, f),
      head    |-> r.head + 1,
      changed |-> Assign(r.changed, f, r.head + 1) ]

\* the sequence without its k-th element
RemoveAt(seq, k) == SubSeq(seq, 1, k - 1) \o SubSeq(seq, k + 1, Len(seq))

\* the worker runs one pending job (jobs have priorities, so any of them
\* may come first) and deletes it
RunJob(k) ==
    /\ k \in DOMAIN jobs
    /\ blobs' = blobs \cup {job_output(jobs[k])}
    /\ jobs' = RemoveAt(jobs, k)
    /\ IF jobs[k].kind = "sync_to_index"
          THEN /\ repo' = commit_file(repo, lowercase(jobs[k].krate),
                                      index_contents(jobs[k].krate))
               /\ replica' = Assign(replica, index_location(jobs[k].krate),
                                    index_contents(jobs[k].krate))
          ELSE UNCHANGED <<repo, replica>>
    /\ UNCHANGED <<crates, versions, dependencies, tokens, arrivals, reqs, teams, follows, run>>

Worker == \E k \in DOMAIN jobs : RunJob(k)

\* ------------------------------------------------- admin/upload_index.rs: run
\* a report that names the head of the index repository of that moment
head_oid_origin(r) == repo.head

\* repo.head_oid(): the head of the checkout the run r works in, the commit
\* reset_head left it at
head_oid(r) == r.head

\* lines 21-23: Repository::open and reset_head give the run a checkout of
\* the index repository at its head
reset_head(r) == [r EXCEPT !.head = repo.head, !.tree = repo.files]

\* repo.get_files_modified_since(commit): every file of the tree for None,
\* else the files a commit made after `commit` wrote or deleted
get_files_modified_since(commit) ==
    IF commit = {} THEN DOMAIN repo.files
    ELSE {f \in DOMAIN repo.changed : \E c \in commit : repo.changed[f] > c}

\* the orders in which a set of files may be listed
Orderings(S) ==
    {seq \in [1..Cardinality(S) -> S] : \A i, j \in DOMAIN seq : seq[i] = seq[j] => i = j}

\* a run that lists every file, whatever commit it was given
changed_files_full(incremental_commit) == get_files_modified_since({})

\* line 26: the files to upload
changed_files(incremental_commit) == get_files_modified_since(incremental_commit)

\* the file the loop of line 41 is at
CurrentFile(r) == r.files[r.pos]

\* a missing file ends the run with an error
skip_file_fails(r) ==
    [r EXCEPT !.pc = "failed", !.error = "No such file or directory"]

\* lines 44-47: a file that is not in the tree is reported and passed over
skip_file(r) ==
    [r EXCEPT !.pc = "file", !.skipped = @ \cup {CurrentFile(r)}, !.pos = @ + 1]

\* lines 49-50: the `?` returns the error of read_to_string or of sync_index
\* from `run`
fail_file(r, msg) == [r EXCEPT !.pc = "failed", !.error = msg]

\* the checkpoints an operator may hand to the command: none, or a commit
Checkpoints == {{}} \cup {{c} : c \in 0..repo.head}

\* lines 17-27: the repository is opened and reset to its head, the head is
\* printed, the changed files are listed
RunStart ==
    /\ run.pc = "idle"
    /\ \E incremental_commit \in Checkpoints :
       \E files \in Orderings(changed_files(incremental_commit)) :
            run' = [reset_head(run) EXCEPT !.pc = "confirm",
                               !.files = files, !.pos = 1, !.attempt = 1,
                               !.incremental_commit = incremental_commit]
    /\ UNCHANGED <<crates, versions, dependencies, jobs, blobs, tokens, arrivals, reqs,
                   teams, follows, repo, replica>>

\* lines 28-30: the operator is asked whether to go on
RunConfirm ==
    /\ run.pc = "confirm"
    /\ \E yes \in BOOLEAN :
         run' = [run EXCEPT !.pc = IF yes THEN "file" ELSE "declined"]
    /\ UNCHANGED <<crates, versions, dependencies, jobs, blobs, tokens, arrivals, reqs,
                   teams, follows, repo, replica>>

\* lines 41-47: the next file; a file that is not in the checkout is skipped
RunFile ==
    /\ run.pc = "file"
    /\ run.pos <= Len(run.files)
    /\ run' = IF CurrentFile(run) \in DOMAIN run.tree
                 THEN [run EXCEPT !.pc = "read"]
                 ELSE skip_file(run)
    /\ UNCHANGED <<crates, versions, dependencies, jobs, blobs, tokens, arrivals, reqs,
                   teams, follows, repo, replica>>

\* line 49: the file of the checkout is read in full
RunRead ==
    /\ run.pc = "read"
    /\ \E io_error \in BOOLEAN :
         run' = IF io_error
                   THEN fail_file(run, "failed to read file")
                   ELSE [run EXCEPT !.pc = "upload",
                                    !.contents = run.tree[CurrentFile(run)]]
    /\ UNCHANGED <<crates, versions, dependencies, jobs, blobs, tokens, arrivals, reqs,
                   teams, follows, repo, replica>>

\* a store that appends what it is given to the object it holds
sync_index_append(store, crate_name, contents) ==
    Assign(store, index_location(crate_name),
           (IF index_location(crate_name) \in DOMAIN store
               THEN store[index_location(crate_name)] ELSE << >>) \o contents)

\* storage.sync_index(crate_name, Some(contents)): the object of the crate's
\* index file is put, whole
sync_index(store, crate_name, contents) ==
    Assign(store, index_location(crate_name), contents)

\* line 50: storage.sync_index(crate_name, Some(contents)) replaces the object
RunUpload ==
    /\ run.pc = "upload"
    /\ \E io_error \in BOOLEAN :
         IF io_error
            THEN /\ run' = fail_file(run, "failed to upload file")
                 /\ UNCHANGED <<blobs, replica>>
            ELSE /\ run' = [run EXCEPT !.pc = "file", !.pos = @ + 1, !.contents = << >>,
                                       !.uploaded = Append(@, CurrentFile(run))]
                 /\ blobs' = blobs \cup {index_location(CurrentFile(run))}
                 /\ replica' = sync_index(replica, CurrentFile(run), run.contents)
    /\ UNCHANGED <<crates, versions, dependencies, jobs, tokens, arrivals, reqs,
                   teams, follows, repo>>

\* lines 53-57: the loop is over, the head is printed for the next run
RunFinish ==
    /\ run.pc = "file"
    /\ run.pos > Len(run.files)
    /\ run' = [run EXCEPT !.pc = "done", !.checkpoint = {head_oid(run)}]
    /\ UNCHANGED <<crates, versions, dependencies, jobs, blobs, tokens, arrivals, reqs,
                   teams, follows, repo, replica>>

\* one step of the upload-index command
Run == RunStart \/ RunConfirm \/ RunFile \/ RunRead \/ RunUpload \/ RunFinish

\* the runs of the command the operator may start
MaxRuns == 2

\* the process of the command is killed between two uploads: nothing of
\* lines 53-57 is printed
RunInterrupt ==
    /\ run.pc = "file"
    /\ run.uploaded # << >>
    /\ run.pos <= Len(run.files)
    /\ run' = [run EXCEPT !.pc = "interrupted"]
    /\ UNCHANGED <<crates, versions, dependencies, jobs, blobs, tokens, arrivals, reqs,
                   teams, follows, repo, replica>>

\* the operator starts the command again with the argument of the run that
\* was interrupted
RunAgain ==
    /\ run.pc = "interrupted"
    /\ run.attempt < MaxRuns
    /\ \E files \in Orderings(changed_files(run.incremental_commit)) :
            run' = [reset_head(IdleRun) EXCEPT !.pc = "confirm",
                               !.files = files, !.pos = 1, !.attempt = run.attempt + 1,
                               !.incremental_commit = run.incremental_commit]
    /\ UNCHANGED <<crates, versions, dependencies, jobs, blobs, tokens, arrivals, reqs,
                   teams, follows, repo, replica>>

\* an administrator deletes a crate: its index file is removed by a commit
\* and its object is removed from the store
DeleteIndexFile(f) ==
    /\ f \in DOMAIN repo.files
    /\ repo' = commit_delete(repo, f)
    /\ replica' = Drop(replica, index_location(f))
    /\ blobs' = blobs \ {index_location(f)}
    /\ UNCHANGED <<crates, versions, dependencies, jobs, tokens, arrivals, reqs,
                   teams, follows, run>>

\* ------------------------------------------------------------------ follows
\* the rows of the table that link user u to crate id
FollowRows(table, u, id) ==
    {k \in DOMAIN table : table[k].user_id = u /\ table[k].crate_id = id}

\* an insert that does not look for the row
insert_follow_always(table, u, id) == Append(table, [user_id |-> u, crate_id |-> id])

\* PUT /crates/:name/follow: the row is inserted unless it is there
insert_follow(table, u, id) ==
    IF FollowRows(table, u, id) # {} THEN table
    ELSE Append(table, [user_id |-> u, crate_id |-> id])

\* DELETE /crates/:name/follow: the rows of the pair are deleted
RECURSIVE delete_follow(_, _, _)
delete_follow(table, u, id) ==
    IF table = << >> THEN << >>
    ELSE (IF Head(table).user_id = u /\ Head(table).crate_id = id
             THEN << >> ELSE << Head(table) >>)
         \o delete_follow(Tail(table), u, id)

\* GET /crates/:name/following
is_following(u, id) == FollowRows(follows, u, id) # {}

\* GET /crates?following=1: the crates joined with the follows of the user,
\* one result for each row
following_search(u) ==
    SelectSeq(follows, LAMBDA row : row.user_id = u)

Follow(u, id) ==
    /\ follows' = insert_follow(follows, u, id)
    /\ UNCHANGED <<crates, versions, dependencies, jobs, blobs, tokens, arrivals, reqs,
                   teams, sync_vars>>

Unfollow(u, id) ==
    /\ follows' = delete_follow(follows, u, id)
    /\ UNCHANGED <<crates, versions, dependencies, jobs, blobs, tokens, arrivals, reqs,
                   teams, sync_vars>>

\* ---------------------------------------------------------------- overrides
\* the sizes an administrator may allow a crate's archives to have
Overrides == 1..(max_upload_size + 1)

\* an administrator gives a crate its own upload-size limit
SetMaxUploadSize(id, n) ==
    /\ crates[id].max_upload_size # {n}
    /\ crates' = [crates EXCEPT ![id].max_upload_size = {n}]
    /\ UNCHANGED <<versions, dependencies, jobs, blobs, tokens, arrivals, reqs, teams, follows, sync_vars>>

\* ------------------------------------------------------------- rate limiter
\* time passes and a bucket refills by one token, up to its burst
Refill(u, a) ==
    /\ tokens[u][a] < Burst
    /\ tokens' = [tokens EXCEPT ![u][a] = @ + 1]
    /\ UNCHANGED <<crates, versions, dependencies, jobs, blobs, arrivals, reqs, teams, follows, sync_vars>>

\* ------------------------------------------------------------ specification
\* one step of the publish request p, its inputs drawn from the domains D
Publish(p, D) ==
    \/ Lookup(p, D) \/ Auth(p, D) \/ RateLimit(p) \/ Size(p) \/ Unpack(p, D)
    \/ Validate(p, D) \/ Begin(p) \/ Create(p, D) \/ Rights(p) \/ NameCheck(p)
    \/ Daily(p) \/ Save(p, D) \/ Deps(p) \/ Readme(p) \/ Upload(p, D)
    \/ Enqueue(p) \/ Commit(p)

\* an owner-change request about a team login
TeamOwnerRequest ==
    \/ \E actor \in Users, id \in Ids(crates), t \in Teams : OwnerAddTeam(actor, id, t)
    \/ \E actor \in Users, id \in Ids(crates), t \in Teams : OwnerRemove(actor, id, t)

\* an owner-change request about a user login
UserOwnerRequest ==
    \/ \E actor \in Users, id \in Ids(crates), u \in Users : OwnerAddUser(actor, id, u)
    \/ \E actor \in Users, id \in Ids(crates), u \in Users : OwnerRemove(actor, id, u)

\* the four bytes of a length, little-endian
put_u32_le(n) == << n % 256, (n \div 256) % 256, (n \div 65536) % 256, n \div 16777216 >>

\* the body cargo sends: each part behind its length
Body(json_bytes, tarball_bytes) ==
    put_u32_le(Len(json_bytes)) \o json_bytes
        \o put_u32_le(Len(tarball_bytes)) \o tarball_bytes

\* a body with a well-formed document and an archive of n bytes
GoodBody(n) == Body(<< 1 >>, [i \in 1..n |-> 0])

\* a body whose document does not parse
BadBody == Body(<< 0 >>, << >>)

\* a manifest that passes every check
GoodManifest ==
    [ NoManifest EXCEPT !.description = {"d"}, !.license = {"MIT"},
                        !.homepage = {"https://foo.rs"} ]

\* a manifest without a description
BadManifest == [ GoodManifest EXCEPT !.description = {} ]

\* every input a request can carry
AllInputs ==
    [ names |-> Names, users |-> Users \cup {NoUser}, verified |-> BOOLEAN,
      bodies |-> {GoodBody(0), GoodBody(max_upload_size + 1), BadBody},
      malformed |-> BOOLEAN,
      manifests |-> {GoodManifest, BadManifest}, versions |-> Versions, deps |-> DepLists,
      readme |-> BOOLEAN, stored |-> BOOLEAN ]

\* every input, with a sample of the dependency lists and without a readme
FaultInputs == [ AllInputs EXCEPT !.deps = SampleDepLists, !.readme = {FALSE} ]

\* requests that pass every check made before the transaction
ValidInputs ==
    [ AllInputs EXCEPT !.names = {"foo", "Foo"}, !.users = Users, !.verified = {TRUE},
                       !.bodies = {GoodBody(0)}, !.malformed = {FALSE},
                       !.manifests = {GoodManifest}, !.deps = {<< >>}, !.readme = {FALSE} ]

\* concurrent publish requests while team owners come and go
Next ==
    \/ \E p \in Procs : Publish(p, ValidInputs)
    \/ TeamOwnerRequest

Spec == Init /\ [][Next]_vars

\* one publish request at a time while owners of both kinds come and go
NextOwners ==
    \/ Publish("p1", ValidInputs)
    \/ TeamOwnerRequest
    \/ UserOwnerRequest

SpecOwners == Init /\ [][NextOwners]_vars

\* one publish request at a time, with every input and every failure, while
\* the buckets refill
NextFaults ==
    \/ Publish("p1", FaultInputs)
    \/ \E u \in Users, a \in Actions : Refill(u, a)

SpecFaults == Init /\ [][NextFaults]_vars

\* concurrent publishes of more versions of one crate than the daily limit
\* allows, by its first owner and by a user that owner has added
DailyInputs ==
    [ ValidInputs EXCEPT !.names = {"foo"}, !.versions = 1..(DailyLimit + 1),
                         !.stored = {TRUE} ]

NextDaily ==
    \/ \E p \in Procs : Publish(p, DailyInputs)
    \/ \E actor \in Users, id \in Ids(crates), u \in Users : OwnerAddUser(actor, id, u)

SpecDaily == Init /\ [][NextDaily]_vars

\* publishes of archives of every length around the limits, to crates with
\* and without a limit of their own
SizeInputs ==
    [ ValidInputs EXCEPT !.names = {"foo"}, !.bodies = {GoodBody(n) : n \in 0..(max_upload_size + 2)},
                         !.versions = {1}, !.stored = {TRUE} ]

NextSize ==
    \/ Publish("p1", SizeInputs)
    \/ \E id \in Ids(crates), n \in Overrides : SetMaxUploadSize(id, n)

SpecSize == Init /\ [][NextSize]_vars

\* requests of verified users for a free and for a reserved name, with
\* archives within the size limit and every other input
JobInputs ==
    [ FaultInputs EXCEPT !.names = {"foo", "std"}, !.users = {"u1"},
                         !.verified = {TRUE}, !.bodies = {GoodBody(0), BadBody},
                         !.readme = BOOLEAN ]

\* one publish request at a time, with every failure of its content and of
\* the transaction, while the worker runs the pending jobs
NextJobs ==
    \/ Publish("p1", JobInputs)
    \/ Worker

SpecJobs == Init /\ [][NextJobs]_vars

\* valid requests with and without a readme
IndexInputs == [ ValidInputs EXCEPT !.users = {"u1"}, !.readme = BOOLEAN ]

NextIndex ==
    \/ Publish("p1", IndexInputs)
    \/ Worker

\* valid publishes and a worker that does not leave a pending job waiting
\* forever
FairSpecIndex == Init /\ [][NextIndex]_vars /\ WF_vars(Worker)

\* valid requests that declare every list of dependencies
DepsInputs ==
    [ ValidInputs EXCEPT !.users = {"u1"}, !.versions = {1, 2}, !.deps = DepLists,
                         !.stored = {TRUE} ]

NextDeps == Publish("p1", DepsInputs)

SpecDeps == Init /\ [][NextDeps]_vars

\* valid requests of the user who belongs to the team
TeamInputs == [ ValidInputs EXCEPT !.users = {"u2"}, !.stored = {TRUE} ]

\* publish requests while the team is added and removed under either login
NextTeams ==
    \/ Publish("p1", TeamInputs)
    \/ \E actor \in Users, id \in Ids(crates), t \in Teams : OwnerAddTeam(actor, id, t)
    \/ \E actor \in Users, id \in Ids(crates), login \in TeamLogins :
            OwnerRemoveTeam(actor, id, login)

SpecTeams == InitTeams /\ [][NextTeams]_vars

\* the row of a crate that user u owns
OwnedBy(n, u) ==
    [name |-> n, users |-> {u}, teams |-> {}, max_upload_size |-> {},
     metadata |-> NewCrate([manifest |-> GoodManifest, readme |-> FALSE])]

\* foo 1 and bar 1 were published and their jobs have run: the index holds
\* both files, written by commits 1 and 2, and the store holds their copies
InitSync ==
    /\ crates = << OwnedBy("foo", "u1"), OwnedBy("bar", "u1") >>
    /\ versions = << [crate_id |-> 1, num |-> 1, license |-> {"MIT"}],
                     [crate_id |-> 2, num |-> 1, license |-> {"MIT"}] >>
    /\ dependencies = << >>
    /\ jobs = << >>
    /\ blobs = { crate_location("foo", 1), crate_location("bar", 1),
                 index_location("foo"), index_location("bar") }
    /\ tokens = [u \in Users |-> [a \in Actions |-> Burst]]
    /\ arrivals = 0
    /\ reqs = [p \in Procs |-> Idle]
    /\ teams = << >>
    /\ follows = << >>
    /\ repo = commit_file(commit_file([files |-> << >>, head |-> 0, changed |-> << >>],
                                      "foo", <<1>>), "bar", <<1>>)
    /\ replica = Assign(Assign(<< >>, index_location("foo"), <<1>>),
                        index_location("bar"), <<1>>)
    /\ run = IdleRun

\* the index is uploaded while crates are deleted
NextSync ==
    \/ Run
    \/ \E f \in DOMAIN repo.files : DeleteIndexFile(f)

SpecSync == InitSync /\ [][NextSync]_vars

\* valid requests of one user for one crate
SyncInputs ==
    [ ValidInputs EXCEPT !.names = {"foo"}, !.users = {"u1"}, !.stored = {TRUE} ]

\* publishes and their jobs while the index is uploaded
NextSyncPublish ==
    \/ Publish("p1", SyncInputs)
    \/ Worker
    \/ Run

SpecSyncPublish == Init /\ [][NextSyncPublish]_vars

\* the bytes a body is made of here, and the longest body
Bytes == {0, 1}

MaxBody == 11

AllBodies == UNION {[1..n -> Bytes] : n \in 0..MaxBody}

\* valid requests of one user for one crate, with every body
BodyInputs ==
    [ ValidInputs EXCEPT !.names = {"foo"}, !.users = {"u1"}, !.versions = {1},
                         !.bodies = AllBodies, !.stored = {TRUE} ]

\* all requests but one have come, each with an empty body
InitBody ==
    /\ crates = << >>
    /\ versions = << >>
    /\ dependencies = << >>
    /\ jobs = << >>
    /\ blobs = {}
    /\ tokens = [u \in Users |-> [a \in Actions |-> Burst]]
    /\ arrivals = MaxRequests - 1
    /\ reqs = [p \in Procs |->
                 IF p = "p1" THEN Err(Idle, "lookup", "invalid metadata length")
                 ELSE Idle]
    /\ teams = << >>
    /\ follows = << >>
    /\ repo = [files |-> << >>, head |-> 0, changed |-> << >>]
    /\ replica = << >>
    /\ run = IdleRun

NextBody == Publish("p1", BodyInputs)

SpecBody == InitBody /\ [][NextBody]_vars

\* users follow and unfollow the two crates while foo is published again
NextFollow ==
    \/ Publish("p1", SyncInputs)
    \/ \E u \in Users, id \in Ids(crates) : Follow(u, id)
    \/ \E u \in Users, id \in Ids(crates) : Unfollow(u, id)

SpecFollow == InitSync /\ [][NextFollow]_vars

\* valid requests of one user for a free name, a reserved name and the
\* reserved name in another case
ReservedInputs ==
    [ ValidInputs EXCEPT !.names = {"foo", "std", "Std"}, !.users = {"u1"},
                         !.stored = {TRUE} ]

NextReserved == Publish("p1", ReservedInputs)

SpecReserved == Init /\ [][NextReserved]_vars

\* ------------------------------------------------------------------ claims
Finished(p) == reqs[p].pc = "done"

SameName(p, q) == canon_crate_name(reqs[p].name) = canon_crate_name(reqs[q].name)

rate_limited == "You have published too many crates in a short period of time"

upload_failed == "failed to upload crate"

\* C1: two requests racing to publish the same unregistered name leave one
\* crate row for it: no two rows share a canonical name, at no time have two
\* open transactions both resolved that name, at most one of two successful
\* requests took the create path, and a request on the update path works on
\* the committed row and passes the rights step before it buffers a version.
C1_OneRowOneWinner ==
    /\ \A i, j \in Ids(crates) :
          i # j => canon_crate_name(crates[i].name) # canon_crate_name(crates[j].name)
    /\ \A p, q \in Procs :
          (p # q /\ SameName(p, q)) =>
              /\ ~(reqs[p].locked /\ reqs[q].locked)
              /\ ~(Finished(p) /\ Finished(q) /\ reqs[p].result = "ok"
                    /\ reqs[q].result = "ok" /\ reqs[p].created /\ reqs[q].created)
    /\ \A p \in Procs :
          (reqs[p].locked /\ ~reqs[p].created) =>
              /\ reqs[p].krate \in Ids(crates)
              /\ reqs[p].krate = by_name(reqs[p].name)
              /\ (reqs[p].vers # 0 =>
                     \E k \in DOMAIN reqs[p].steps : reqs[p].steps[k] = "rights")

\* both requests saw the name unregistered; one created the crate, the other
\* was sent down the update path and refused there
C1_Witness ==
    \E p, q \in Procs :
        /\ p # q /\ SameName(p, q) /\ Finished(p) /\ Finished(q)
        /\ reqs[p].debit = "PublishNew" /\ reqs[q].debit = "PublishNew"
        /\ reqs[p].created /\ reqs[p].result = "ok"
        /\ ~reqs[q].created /\ reqs[q].result = MISSING_RIGHTS_ERROR_MESSAGE
        /\ Len(crates) = 1

Pos(st, s) == CHOOSE k \in DOMAIN st : st[k] = s

Has(st, s) == \E k \in DOMAIN st : st[k] = s

VersionPersisted(r) ==
    /\ by_name(r.name) # 0
    /\ \E i \in VersionsOf(by_name(r.name)) : versions[i].num = r.vers

\* request p fails at the upload of its archive in this step
UploadFails(p) ==
    /\ reqs[p].pc = "upload"
    /\ reqs'[p].pc = "done"
    /\ reqs'[p].result = upload_failed

DirectOwner(user, krate) == user \in krate.users

TeamMember(user, krate) == \E t \in Teams : t \in krate.teams /\ user \in Members[t]

\* request p leaves the rights step in this step
RightsStep(p) == reqs[p].pc = "rights" /\ reqs'[p].pc # "rights"

Rejected(p, msg) == reqs'[p].pc = "done" /\ reqs'[p].result = msg

\* C4: a request to publish to an existing package whose user is, when the
\* rights step runs inside the transaction, neither an individual owner nor
\* a member of an owning team is refused with the missing-rights message and
\* writes nothing; this holds whatever the lookup before the transaction saw.
C4_NonOwnerRefused ==
    [][\A p \in Procs :
          LET r == reqs[p] IN
          (RightsStep(p) /\ ~r.created /\ ~DirectOwner(r.user, crates[r.krate])
                         /\ ~TeamMember(r.user, crates[r.krate])) =>
              /\ Rejected(p, MISSING_RIGHTS_ERROR_MESSAGE)
              /\ r.vers = 0
              /\ UNCHANGED <<crates, versions, dependencies, jobs, blobs>>]_vars

\* a request that saw the name unregistered before its transaction was
\* refused for missing rights over the package another request had created
C4_Witness ==
    \E p \in Procs :
        /\ Finished(p) /\ reqs[p].result = MISSING_RIGHTS_ERROR_MESSAGE
        /\ reqs[p].debit = "PublishNew" /\ ~reqs[p].created
        /\ by_name(reqs[p].name) # 0
        /\ \A q \in Procs \ {p} : ~Finished(q)

\* C5: over an existing package the user has Publish exactly when the user is
\* an individual owner or a member of a team that owns the package now, and
\* None otherwise; the rights step lets exactly those requests go on.
C5_PublishIffOwnerOrMember ==
    [][\A p \in Procs :
          LET r   == reqs[p]
              own == DirectOwner(r.user, crates[r.krate]) \/ TeamMember(r.user, crates[r.krate])
          IN
          (RightsStep(p) /\ ~r.created) =>
              /\ own => (publish_rights(r) = RightsPublish /\ reqs'[p].pc = After("rights"))
              /\ ~own => (publish_rights(r) = RightsNone
                           /\ Rejected(p, MISSING_RIGHTS_ERROR_MESSAGE))]_vars

\* a member of an owning team who is no individual owner has passed the
\* rights step of a publish to the team's package
C5_Witness ==
    \E p \in Procs :
        /\ reqs[p].pc = "namecheck" /\ ~reqs[p].created
        /\ ~DirectOwner(reqs[p].user, crates[reqs[p].krate])
        /\ TeamMember(reqs[p].user, crates[reqs[p].krate])

\* C6: every package has an individual owner: the row a first publish
\* inserts is owned by the publishing user from the moment it is inserted,
\* every committed row keeps at least one user among its owners, and a
\* removal by an individual owner that would leave no user among the owners
\* is answered with the fixed message.
C6_IndividualOwnerKept ==
    /\ \A i \in Ids(crates) : crates[i].users # {}
    /\ \A p \in Procs :
          (reqs[p].locked /\ reqs[p].created) => TxCrate(reqs[p]).users = {reqs[p].user}
    /\ \A i \in Ids(crates), actor \in Users, login \in Users \cup Teams :
          ( /\ actor \in crates[i].users
            /\ login \in crates[i].users \cup crates[i].teams
            /\ crates[i].users \ {login} = {} ) =>
              remove_owner_response(actor, crates[i], login)
                  = "cannot remove all individual owners of a crate"

\* a package owned by one user and a team: removing the user would leave
\* the team alone
C6_Witness ==
    \E i \in Ids(crates) :
        /\ crates[i].teams # {}
        /\ Cardinality(crates[i].users) = 1
        /\ \E j \in Ids(versions) : versions[j].crate_id = i

already_uploaded == "crate version is already uploaded"

\* C7: no package has two version rows with the same version number: a save
\* of a pair that is already stored fails, so a request that was told
\* "already uploaded" names a stored pair, and a version buffered by an open
\* transaction is never one the package already has.
C7_VersionUnique ==
    /\ \A i, j \in Ids(versions) :
          (versions[i].crate_id = versions[j].crate_id /\ versions[i].num = versions[j].num)
              => i = j
    /\ \A p \in Procs :
          /\ (Finished(p) /\ reqs[p].result = already_uploaded) => VersionPersisted(reqs[p])
          /\ (reqs[p].locked /\ reqs[p].vers # 0) => ~version_exists(reqs[p], reqs[p].vers)

\* a second publish of a stored (name, version) pair was refused
C7_Witness ==
    \E p \in Procs :
        /\ Finished(p) /\ reqs[p].result = already_uploaded
        /\ Cardinality(VersionsOf(by_name(reqs[p].name))) = 1

\* the request p commits in this step
Commits(p) == reqs[p].pc = "commit" /\ reqs'[p].pc # "commit"

\* C8: a valid first publish (verified user, metadata present, size within
\* the limit, a token available, name not registered when the insert runs)
\* succeeds unless the blob store refuses the archive, and when it commits
\* the new package has exactly one version, the requested one.
C8_FirstPublishSucceeds ==
    /\ [](\A p \in Procs :
            (Finished(p) /\ reqs[p].created) => reqs[p].result \in {"ok", upload_failed})
    /\ [][\A p \in Procs :
            (Commits(p) /\ reqs[p].created) =>
                /\ reqs'[p].pc = "done" /\ reqs'[p].result = "ok"
                /\ by_name(reqs[p].name) = 0
                /\ by_name(reqs[p].name)' # 0
                /\ Cardinality(VersionsOf(by_name(reqs[p].name))') = 1
                /\ \A i \in VersionsOf(by_name(reqs[p].name))' :
                      versions'[i].num = reqs[p].vers]_vars

\* a first publish has succeeded and its package holds its one version
C8_Witness ==
    \E p \in Procs :
        /\ Finished(p) /\ reqs[p].created /\ reqs[p].result = "ok"
        /\ VersionPersisted(reqs[p])
        /\ Cardinality(VersionsOf(by_name(reqs[p].name))) = 1

AuthFailures ==
    {"this action requires authentication",
     "A verified email address is required to publish crates to crates.io"}

CostlySteps == {"size", "unpack", "validate"}

\* C9: the token is debited after authentication and before the size check,
\* the unpacking and the metadata validation: those steps run only for a
\* request that holds a debit, a request refused at authentication never
\* reached the limiter, a rate-limited request did none of the costly steps,
\* and a bucket only goes down at the limiter step of an authenticated
\* request.
C9_DebitAfterAuthBeforeWork ==
    /\ [](\A p \in Procs :
            LET r == reqs[p]  st == r.steps IN
            /\ Has(st, "ratelimit") => (Has(st, "auth") /\ Pos(st, "auth") < Pos(st, "ratelimit"))
            /\ r.debit # "none" => Has(st, "ratelimit")
            /\ \A s \in CostlySteps :
                  /\ r.pc = s => (Has(st, "ratelimit") /\ r.debit # "none")
                  /\ Has(st, s) => ( /\ Has(st, "ratelimit") /\ r.debit # "none"
                                     /\ Pos(st, "ratelimit") < Pos(st, s) )
            /\ (Finished(p) /\ r.result \in AuthFailures) =>
                  (~Has(st, "ratelimit") /\ r.debit = "none")
            /\ (Finished(p) /\ r.result = rate_limited) =>
                  (r.debit = "none" /\ \A s \in CostlySteps : ~Has(st, s)))
    /\ [][\A u \in Users, a \in Actions :
            tokens'[u][a] < tokens[u][a] =>
                \E p \in Procs :
                    /\ reqs[p].pc = "ratelimit" /\ reqs[p].user = u
                    /\ Has(reqs[p].steps, "auth")
                    /\ \A s \in CostlySteps : ~Has(reqs[p].steps, s)
                    /\ reqs'[p].debit = a
                    /\ tokens'[u][a] = tokens[u][a] - 1]_vars

\* a request was rate-limited: it authenticated, found the bucket empty and
\* stopped there
C9_Witness ==
    \E p \in Procs :
        /\ Finished(p) /\ reqs[p].result = rate_limited
        /\ Has(reqs[p].steps, "auth")

\* the request p, holding a debit, ends with an error in this step
FailsDebited(p) ==
    /\ reqs[p].pc \notin {"idle", "done"} /\ reqs[p].debit # "none"
    /\ reqs'[p].pc = "done" /\ reqs'[p].result # "ok"

\* C10: a failure of a request after its token was debited, before or inside
\* the transaction, leaves every bucket as it was: the token stays debited.
C10_TokenNotRefunded ==
    [][\A p \in Procs : FailsDebited(p) => tokens' = tokens]_vars

\* a debited request was rolled back at the archive upload and the bucket
\* it was debited from is still short of the token
C10_Witness ==
    \E p \in Procs, u \in Users :
        /\ Finished(p) /\ reqs[p].result = upload_failed
        /\ reqs[p].debit # "none"
        /\ tokens[u][reqs[p].debit] < Burst

\* the request p leaves the limiter step in this step
LimiterStep(p) == reqs[p].pc = "ratelimit" /\ reqs'[p].pc # "ratelimit"

\* the bucket a request is charged to, from what its lookup before the
\* transaction found
Bucket(r) == IF r.existing_crate = 0 THEN "PublishNew" ELSE "PublishUpdate"

\* C11: an authenticated publish is charged to one bucket of its user, the
\* first-publish bucket when its lookup found no crate of that name and the
\* update bucket when it found one: when that bucket holds a token the step
\* takes exactly one from it, leaves every other bucket alone and lets the
\* request go on, however empty the user's other bucket is; when it holds
\* none the request is rate-limited and no bucket changes.
C11_OneTokenOneBucket ==
    [][\A p \in Procs :
          LET r == reqs[p]  a == Bucket(r) IN
          LimiterStep(p) =>
              IF tokens[r.user][a] > 0
                 THEN /\ tokens' = [tokens EXCEPT ![r.user][a] = @ - 1]
                      /\ reqs'[p].pc = After("ratelimit")
                      /\ reqs'[p].debit = a
                 ELSE /\ tokens' = tokens
                      /\ Rejected(p, rate_limited)
                      /\ reqs'[p].debit = "none"]_vars

\* a publish of a new version was charged to the update bucket while the
\* first-publish bucket of the same user was empty
C11_Witness ==
    \E p \in Procs :
        /\ reqs[p].pc = "size" /\ reqs[p].debit = "PublishUpdate"
        /\ reqs[p].existing_crate # 0
        /\ tokens[reqs[p].user]["PublishNew"] = 0

too_many_versions == "You have published too many versions of this crate in the last 24 hours"

\* the request p leaves the daily-limit step in this step
DailyStep(p) == reqs[p].pc = "daily" /\ reqs'[p].pc # "daily"

\* the committed versions of the crate with id `id`, whoever published them
PublishedToday(id) == Cardinality({i \in Ids(versions) : versions[i].crate_id = id})

\* C12: with the daily limit configured, a publish to a crate that already
\* has at least that many versions is refused with the fixed message, whoever
\* published them, and one to a crate with fewer passes the step; so no crate
\* ever holds more versions than the limit, also when publishes to it run
\* concurrently (all versions of a run fall within one 24-hour window).
C12_DailyLimit ==
    /\ [](\A i \in Ids(crates) : PublishedToday(i) <= DailyLimit)
    /\ [][\A p \in Procs :
            (DailyStep(p) /\ ~reqs[p].created) =>
                IF PublishedToday(reqs[p].krate) >= DailyLimit
                   THEN Rejected(p, too_many_versions) /\ UNCHANGED versions
                   ELSE reqs'[p].pc = After("daily")]_vars

\* a publish was refused at the daily limit of a crate that holds as many
\* versions as the limit allows
C12_Witness ==
    \E p \in Procs :
        /\ Finished(p) /\ reqs[p].result = too_many_versions
        /\ PublishedToday(by_name(reqs[p].name)) = DailyLimit

\* the request p leaves the lookup / the size step in this step
LookupStep(p) == reqs[p].pc \in {"idle", "done"} /\ reqs'[p].pc \notin {"idle", "done"}

SizeStep(p) == reqs[p].pc = "size" /\ reqs'[p].pc # "size"

\* the limit that applies to a request: the override its lookup found on the
\* existing crate, the configured limit when there was no crate or no override
ApplicableLimit(r) ==
    IF r.existing_crate # 0 /\ r.crate_max # {}
       THEN CHOOSE n \in Overrides : r.crate_max = {n}
       ELSE max_upload_size

ClientInputErrors ==
    { "invalid upload request",
      "uploaded tarball is malformed or too large when decompressed",
      missing_metadata_error_message(<< "description" >>),
      "cannot upload a crate with a reserved name",
      "wildcard dependency constraints are not allowed",
      "no known crate named" }

\* the request p is answered in this step
Answered(p) == reqs'[p] # reqs[p] /\ reqs'[p].pc = "done"

\* the objects a committed version accounts for
ObjectsOf(name, vers) ==
    {crate_location(name, vers), index_location(name), readme_location(name, vers)}

\* C14: a publish refused for an error of its content (malformed payload or
\* archive, invalid metadata, reserved name, wildcard or unknown dependency)
\* changes no table and stores nothing: the answering step leaves crates,
\* versions, dependency edges, jobs and the blob store as they were, the
\* request has committed nothing and stored no archive, and every pending
\* job and every stored object, at any time and so also once the worker has
\* run the jobs, belongs to a committed version or to a request still in its
\* transaction.
C14_InputErrorChangesNothing ==
    /\ [][\A p \in Procs :
            (Answered(p) /\ reqs'[p].result \in ClientInputErrors) =>
                UNCHANGED <<crates, versions, dependencies, jobs, blobs>>]_vars
    /\ [](\A p \in Procs :
            (Finished(p) /\ reqs[p].result \in ClientInputErrors) =>
                (~Has(reqs[p].steps, "commit") /\ reqs[p].put = "none"))
    /\ [](\A k \in DOMAIN jobs :
            \E i \in Ids(versions) : crates[versions[i].crate_id].name = jobs[k].krate)
    /\ [](\A b \in blobs :
            \/ \E i \in Ids(versions) :
                  b \in ObjectsOf(crates[versions[i].crate_id].name, versions[i].num)
            \/ \E p \in Procs :
                  /\ reqs[p].in_tx /\ reqs[p].put = "open"
                  /\ b = crate_location(TxCrate(reqs[p]).name, reqs[p].vers))

\* after one publish succeeded and its job ran, a publish that had saved its
\* version was refused for an unknown dependency and nothing more is stored
C14_Witness ==
    \E p \in Procs :
        /\ Finished(p) /\ reqs[p].result = "no known crate named"
        /\ reqs[p].vers # 0 /\ Has(reqs[p].steps, "save")
        /\ jobs = << >> /\ Len(versions) = 1 /\ Cardinality(blobs) = 2

SyncJob(name) == [kind |-> "sync_to_index", krate |-> name]

\* no transaction is open and no job is pending
Quiescent == jobs = << >> /\ \A p \in Procs : ~reqs[p].in_tx

ReadmeObjects == {readme_location(n, v) : n \in Names, v \in Versions}

\* the archive and the index file of every committed version
ArchivesAndIndexes ==
    UNION {{crate_location(crates[versions[i].crate_id].name, versions[i].num),
            index_location(crates[versions[i].crate_id].name)} : i \in Ids(versions)}

\* C15: a publish without a readme that commits has stored its archive and
\* leaves exactly one job, the index-sync job of its crate; a job that is run
\* stores exactly its one object, and an index file appears only when a
\* pending index-sync job of that crate is run; so once the jobs have run the
\* store holds, readmes aside, exactly the archive and the index file of each
\* committed version; and a pending index-sync job does lead to the index
\* file being stored.
C15_ArchiveAndIndexStored ==
    /\ [][\A p \in Procs :
            (Commits(p) /\ ~reqs[p].readme) =>
                /\ jobs' = Append(jobs, SyncJob(reqs[p].name))
                /\ crate_location(reqs[p].name, reqs[p].vers) \in blobs
                /\ blobs' = blobs]_vars
    /\ [][blobs' # blobs =>
            \/ \E p \in Procs :
                  /\ reqs[p].pc = "upload" /\ jobs' = jobs
                  /\ blobs' = blobs \cup {crate_location(reqs[p].name, reqs'[p].vers)}
            \/ \E k \in DOMAIN jobs :
                  /\ jobs' = RemoveAt(jobs, k)
                  /\ blobs' = blobs \cup
                        { IF jobs[k].kind = "sync_to_index"
                             THEN index_location(jobs[k].krate)
                             ELSE readme_location(jobs[k].krate, jobs[k].vers) }]_vars
    /\ [](Quiescent => blobs \ ReadmeObjects = ArchivesAndIndexes)
    /\ \A n \in Names :
          (\E k \in DOMAIN jobs : jobs[k] = SyncJob(n)) ~> (index_location(n) \in blobs)

\* one publish without a readme has succeeded and its job has run: the store
\* holds its archive and the index file of its crate and nothing else
C15_Witness ==
    \E p \in Procs :
        /\ Finished(p) /\ reqs[p].result = "ok" /\ Quiescent
        /\ Len(versions) = 1
        /\ blobs = {crate_location(reqs[p].name, reqs[p].vers), index_location(reqs[p].name)}
        /\ Cardinality(blobs) = 2

\* the request p leaves the dependencies step in this step
DepsStep(p) == reqs[p].pc = "deps" /\ reqs'[p].pc # "deps"

HasWildcard(deps) == \E k \in DOMAIN deps : deps[k].version_req = "*"

\* C16: a publish that declares a dependency with the requirement `*` is
\* refused at the dependencies step, whatever the registry and the name of
\* that dependency and whatever the other dependencies are; the step changes
\* no table, the version the request had saved is not persisted, and no row
\* of the dependencies table ever carries the requirement `*`.
C16_WildcardRejected ==
    /\ [][\A p \in Procs :
            (DepsStep(p) /\ HasWildcard(reqs[p].deps)) =>
                /\ reqs'[p].pc = "done" /\ reqs'[p].result # "ok"
                /\ ~Has(reqs'[p].steps, "commit")
                /\ UNCHANGED <<crates, versions, dependencies, jobs, blobs>>
                /\ ~VersionPersisted(reqs[p])']_vars
    /\ [](\A k \in Ids(dependencies) : dependencies[k].req # "*")

\* a publish that had saved its version was refused for the wildcard
\* requirement of a dependency on a registered crate, and left no row
C16_Witness ==
    \E p \in Procs :
        /\ Finished(p)
        /\ reqs[p].result = "wildcard dependency constraints are not allowed"
        /\ reqs[p].vers # 0
        /\ Len(versions) = 1 /\ Len(dependencies) = 0

\* a declared dependency that add_dependencies accepts: this registry, a
\* crate registered (or being registered by this request) under the very
\* same name, no wildcard
ValidDep(r, dep) ==
    /\ dep.registry = ""
    /\ \/ \E i \in Ids(crates) : crates[i].name = dep.name
       \/ r.created /\ r.name = dep.name
    /\ dep.version_req # "*"

\* C17: add_dependencies inserts all rows or none: when a declared dependency
\* is not valid the call fails having inserted nothing and the request is
\* refused; when all are valid it inserts one row per declared dependency, in
\* order, and the commit adds exactly those rows for the new version, each
\* pointing at the crate whose registered name is the declared name.
C17_AllOrNothing ==
    /\ [][\A p \in Procs :
            DepsStep(p) =>
                LET r == reqs[p]  declared == reqs[p].deps IN
                IF \A k \in DOMAIN declared : ValidDep(r, declared[k])
                   THEN /\ reqs'[p].pc = After("deps")
                        /\ Len(reqs'[p].edges) = Len(declared)
                        /\ \A k \in DOMAIN declared :
                              /\ reqs'[p].edges[k].name = declared[k].name
                              /\ reqs'[p].edges[k].req = declared[k].version_req
                   ELSE /\ reqs'[p].pc = "done" /\ reqs'[p].result # "ok"
                        /\ reqs'[p].edges = << >>
                        /\ UNCHANGED dependencies]_vars
    /\ [][\A p \in Procs :
            Commits(p) =>
                LET declared == reqs[p].deps IN
                /\ Len(dependencies') = Len(dependencies) + Len(declared)
                /\ \A k \in DOMAIN dependencies : dependencies'[k] = dependencies[k]
                /\ \A k \in DOMAIN declared :
                      LET row == dependencies'[Len(dependencies) + k] IN
                      /\ row.version_id = Len(versions')
                      /\ versions'[row.version_id].num = reqs[p].vers
                      /\ crates'[row.crate_id].name = declared[k].name
                      /\ row.req = declared[k].version_req]_vars
    /\ [][dependencies' # dependencies => \E p \in Procs : Commits(p)]_vars

\* a version was committed with its two declared dependencies
C17_Witness ==
    \E p \in Procs :
        /\ Finished(p) /\ reqs[p].result = "ok" /\ Len(reqs[p].edges) = 2
        /\ Len(dependencies) = 2
        /\ dependencies[1].version_id = dependencies[2].version_id

ReadmeJob(name, vers) == [kind |-> "render_and_upload_readme", krate |-> name, vers |-> vers]

\* C18: the jobs of a publish are enqueued with its transaction: a commit
\* adds to the queue the readme job of its version if and only if a
\* non-empty readme came, and exactly one index-sync job of its crate;
\* a publish that is refused or rolled back adds no job; and nothing but
\* a commit adds a job.
C18_EnqueueWithTransaction ==
    /\ [][\A p \in Procs :
            Commits(p) =>
                jobs' = jobs
                        \o (IF reqs[p].readme
                               THEN <<ReadmeJob(reqs[p].name, reqs[p].vers)>> ELSE << >>)
                        \o <<SyncJob(reqs[p].name)>>]_vars
    /\ [][\A p \in Procs :
            (Answered(p) /\ reqs'[p].result # "ok") => jobs' = jobs]_vars
    /\ [][Len(jobs') > Len(jobs) => \E p \in Procs : Commits(p)]_vars

\* a publish with a readme has committed and its two jobs are pending
C18_Witness ==
    \E p \in Procs :
        /\ Finished(p) /\ reqs[p].result = "ok"
        /\ jobs = <<ReadmeJob(reqs[p].name, reqs[p].vers), SyncJob(reqs[p].name)>>

team_members_error == "team members don't have permission to modify owners"

only_owners_error == "only owners have permission to modify owners"

\* the answers to the owner changes actor may ask for on the crate
OwnerResponses(actor, krate) ==
    {add_user_response(actor, krate, u) : u \in Users}
    \cup {add_team_response(actor, krate, t) : t \in Teams}
    \cup {remove_owner_response(actor, krate, l) : l \in Users \cup Teams}

\* some owner change asked by actor on the crate with id i would be made
CanChangeOwners(actor, i) ==
    \/ \E u \in Users : ENABLED OwnerAddUser(actor, i, u)
    \/ \E t \in Teams : ENABLED OwnerAddTeam(actor, i, t)
    \/ \E l \in Users \cup Teams : ENABLED OwnerRemove(actor, i, l)

\* C19: only an individual owner changes the owners of a crate: a user whose
\* only link to it is membership of an owning team is answered "team members
\* don't have permission to modify owners" to every owner change, a user
\* with no link is answered "only owners have permission to modify owners",
\* and for both no owner change is made.
C19_OnlyIndividualOwnersModify ==
    \A i \in Ids(crates), actor \in Users :
        LET krate == crates[i] IN
        /\ (~DirectOwner(actor, krate) /\ TeamMember(actor, krate)) =>
              (OwnerResponses(actor, krate) = {team_members_error}
               /\ ~CanChangeOwners(actor, i))
        /\ (~DirectOwner(actor, krate) /\ ~TeamMember(actor, krate)) =>
              (OwnerResponses(actor, krate) = {only_owners_error}
               /\ ~CanChangeOwners(actor, i))
        /\ "ok" \in OwnerResponses(actor, krate) => DirectOwner(actor, krate)

\* a crate is owned by a team one of whose members is no individual owner of
\* it, and that member's owner changes are answered with the team message
C19_Witness ==
    \E i \in Ids(crates), actor \in Users :
        /\ ~DirectOwner(actor, crates[i]) /\ TeamMember(actor, crates[i])
        /\ team_members_error \in OwnerResponses(actor, crates[i])

\* the rows of the team table that hold team t
RowsOf(table, t) == {k \in DOMAIN table : table[k].github_id = t}

\* a step that makes team t an owner of package id
TeamAdded(id, t) ==
    /\ id \in Ids(crates)
    /\ t \notin crates[id].teams
    /\ crates'[id].teams = crates[id].teams \cup {t}

\* C20: team logins are case-insensitive.  At every moment each stored login
\* is lower-case and no two rows hold the same GitHub team.  After a team is
\* made an owner, under the mixed-case or the lower-case login, it has exactly
\* one row, both spellings find that row and no other, the row carries the
\* lower-case login, and a row that existed under an older login was updated
\* in place: the table did not grow.
C20_TeamLoginsCaseInsensitive ==
    /\ [](/\ \A k \in DOMAIN teams : teams[k].login = to_lowercase(teams[k].login)
          /\ \A t \in Teams : Cardinality(RowsOf(teams, t)) <= 1)
    /\ [][\A id \in Ids(crates), t \in Teams :
            TeamAdded(id, t) =>
                /\ Cardinality(RowsOf(teams', t)) = 1
                /\ \A login \in TeamLogins :
                        /\ github_team(login) = t
                        /\ find_by_login(teams', login) = RowsOf(teams', t)
                        /\ \A k \in RowsOf(teams', t) :
                                teams'[k].login = to_lowercase(login)
                /\ RowsOf(teams, t) # {} => Len(teams') = Len(teams)]_vars

\* the team, first known as old-core, owns a package, and its one row
\* carries the lower-case login core
C20_Witness ==
    /\ \E id \in Ids(crates) : "t1" \in crates[id].teams
    /\ teams = << [login |-> "github:test-org:core", github_id |-> "t1"] >>

\* an incremental run that was started at its own checkpoint: no commit, and
\* so no change of any file, lies between the checkpoint and the head
StartedAtCheckpoint == run.pc # "idle" /\ run.incremental_commit = {run.head}

\* C21: an incremental run started from a checkpoint since which no file
\* changed lists no file, never reads or uploads one and never fails; none of
\* its steps changes the content store; and the step that completes it
\* reports the head it was reset to as the next checkpoint.
C21_NoChangeNoUpload ==
    /\ [](StartedAtCheckpoint =>
            /\ run.files = << >>
            /\ run.uploaded = << >>
            /\ run.pc \in {"confirm", "declined", "file", "done"})
    /\ [][StartedAtCheckpoint' /\ run' # run =>
            /\ replica' = replica
            /\ blobs' = blobs
            /\ run'.pc = "done" => run'.checkpoint = run'.incremental_commit]_vars

\* a run started from commit 2, the head, has completed and names commit 2
C21_Witness ==
    /\ StartedAtCheckpoint
    /\ run.incremental_commit = {2}
    /\ run.pc = "done"
    /\ run.checkpoint = {2}
    /\ DOMAIN run.tree = {"foo", "bar"}

\* the elements of a sequence
Range(seq) == {seq[i] : i \in DOMAIN seq}

\* the run is at a listed file that is not in its checkout
AtMissingFile ==
    /\ run.pc = "file"
    /\ run.pos <= Len(run.files)
    /\ CurrentFile(run) \notin DOMAIN run.tree

\* C22: when the run comes to a listed file that no longer exists, its step
\* reports the file as skipped, uploads nothing, raises no error and moves on
\* to the next listed file; a skipped file is never among the uploaded ones,
\* and a run that completes has skipped or uploaded every listed file.
C22_MissingFileSkipped ==
    /\ [][AtMissingFile /\ run' # run =>
            /\ run'.pc = "file"
            /\ run'.pos = run.pos + 1
            /\ run'.skipped = run.skipped \cup {CurrentFile(run)}
            /\ run'.uploaded = run.uploaded
            /\ run'.error = ""
            /\ replica' = replica
            /\ blobs' = blobs]_vars
    /\ [](/\ run.skipped \cap Range(run.uploaded) = {}
          /\ run.pc = "done" => Range(run.files) = run.skipped \cup Range(run.uploaded))

\* foo was deleted after the checkpoint of the run: the run listed foo,
\* skipped it and then uploaded bar, the file listed after it
C22_Witness ==
    /\ run.pc = "done"
    /\ run.files = << "foo", "bar" >>
    /\ run.skipped = {"foo"}
    /\ run.uploaded = << "bar" >>

\* C23: when reading or uploading one index file fails, the file is passed
\* over and the run goes on with the next listed file: the step on which the
\* error occurs leaves the run in its loop, one file further.
C23_FailedFileSkipped ==
    [][run.error = "" /\ run'.error # "" =>
            /\ run'.pc = "file"
            /\ run'.pos = run.pos + 1]_vars

\* no index-sync job is waiting in the queue
NoSyncJobPending == \A k \in DOMAIN jobs : jobs[k].kind # "sync_to_index"

\* C24: the run may interleave with publishes and their index-sync jobs: once
\* the run has completed and no index-sync job is pending, the stored object
\* of every index file equals the file's current contents.
C24_ReplicaMatchesIndex ==
    (run.pc = "done" /\ NoSyncJobPending) =>
        \A f \in DOMAIN repo.files :
            /\ index_location(f) \in DOMAIN replica
            /\ replica[index_location(f)] = repo.files[f]

\* the body holds a length n1, n1 bytes, a length n2 and at least n2 bytes
Framed(b, n1, n2) ==
    /\ Len(b) >= 8 + n1 + n2
    /\ SubSeq(b, 1, 4) = put_u32_le(n1)
    /\ SubSeq(b, 5 + n1, 8 + n1) = put_u32_le(n2)

WellFramed(b) == \E n1, n2 \in 0..Len(b) : Framed(b, n1, n2)

\* the request p is received in this step
Received(p) == reqs[p].pc \in {"idle", "done"} /\ reqs'[p] # reqs[p]

\* C25: split_body accepts a body exactly when it is a length n1, n1 bytes,
\* a length n2 and at least n2 bytes, and then returns those n1 bytes and
\* those n2 bytes.  Every other body ends the request with the error of
\* split_body, never with the parser's, and nothing else has happened.
C25_SplitBody ==
    [][\A p \in Procs : Received(p) =>
          LET b     == reqs'[p].body
              parts == split_body(b)
          IN
          /\ (parts.error = "") <=> WellFramed(b)
          /\ \A n1, n2 \in 0..Len(b) : Framed(b, n1, n2) =>
                /\ parts.json_bytes = SubSeq(b, 5, 4 + n1)
                /\ parts.tarball_bytes = SubSeq(b, 9 + n1, 8 + n1 + n2)
                /\ \/ reqs'[p].pc = "auth" /\ reqs'[p].tarball_bytes = parts.tarball_bytes
                   \/ Finished(p)' /\ reqs'[p].result = "invalid upload request"
          /\ ~WellFramed(b) =>
                /\ Finished(p)'
                /\ reqs'[p].result = parts.error
                /\ reqs'[p].result \notin {"ok", "", "invalid upload request"}
                /\ reqs'[p].steps = << "lookup" >>]_vars

\* a body of exactly 8 + 1 + 1 bytes was accepted and its last byte is the
\* archive
C25_Witness ==
    /\ reqs["p1"].body = << 1, 0, 0, 0, 1, 1, 0, 0, 0, 0 >>
    /\ reqs["p1"].pc = "auth"
    /\ reqs["p1"].tarball_bytes = << 0 >>

\* the crates the following-search returns to u, with repetitions
SearchHits(u, id) ==
    Cardinality({k \in DOMAIN following_search(u) : following_search(u)[k].crate_id = id})

\* the follow state of every pair but (u, id) is what it was
OthersKept(u, id) ==
    \A v \in Users, other \in Ids(crates) :
        (v # u \/ other # id) =>
            FollowRows(follows', v, other) = {} <=> FollowRows(follows, v, other) = {}

\* C26: follow and unfollow are idempotent.  In every state a pair has at
\* most one row, so the following-search returns a followed crate once; a
\* follow request, the first or a repeated one, leaves the user following
\* the crate exactly once, an unfollow request leaves the user not following
\* it, a repeated request changes nothing, both are always answered, and
\* neither changes the follow state of another user or crate.
C26_FollowIdempotent ==
    /\ [](\A u \in Users, id \in Ids(crates) :
            /\ SearchHits(u, id) <= 1
            /\ is_following(u, id) <=> SearchHits(u, id) = 1
            /\ ENABLED Follow(u, id)
            /\ ENABLED Unfollow(u, id)
            /\ insert_follow(insert_follow(follows, u, id), u, id)
                    = insert_follow(follows, u, id)
            /\ delete_follow(delete_follow(follows, u, id), u, id)
                    = delete_follow(follows, u, id))
    /\ [][\A u \in Users, id \in Ids(crates) :
            /\ follows' = insert_follow(follows, u, id) /\ follows' # follows =>
                    /\ Cardinality(FollowRows(follows', u, id)) = 1
                    /\ OthersKept(u, id)
            /\ follows' = delete_follow(follows, u, id) /\ follows' # follows =>
                    /\ FollowRows(follows', u, id) = {}
                    /\ OthersKept(u, id)]_vars

\* u1 follows foo and not bar, and u2 follows bar
C26_Witness ==
    /\ is_following("u1", 1) /\ ~is_following("u1", 2)
    /\ is_following("u2", 2)
    /\ Len(following_search("u1")) = 1

reserved_name_error == "cannot upload a crate with a reserved name"

\* the name is a reserved one once case and separators are folded
ReservedName(n) == canon_crate_name(n) \in {canon_crate_name(r) : r \in reserved_crate_names}

\* C27: a request whose name is reserved under canonicalization and that
\* reaches the transaction is answered "cannot upload a crate with a reserved
\* name" on entering it, before the insert or update of the crate: no request
\* for such a name ever takes the create step or succeeds, and no row of
\* crates ever carries such a name.
C27_ReservedRejected ==
    /\ [](/\ \A i \in Ids(crates) : ~ReservedName(crates[i].name)
          /\ \A p \in Procs : (reqs[p].pc # "idle" /\ ReservedName(reqs[p].name)) =>
                /\ ~Has(reqs[p].steps, "create")
                /\ ~reqs[p].created
                /\ reqs[p].result # "ok")
    /\ [][\A p \in Procs :
            (reqs[p].pc = "begin" /\ ReservedName(reqs[p].name) /\ reqs'[p] # reqs[p]) =>
                /\ Finished(p)'
                /\ reqs'[p].result = reserved_name_error
                /\ crates' = crates]_vars

\* the request for Std, which is the reserved std in another case, was refused
C27_Witness ==
    /\ Finished("p1")
    /\ reqs["p1"].name = "Std"
    /\ reqs["p1"].result = reserved_name_error
    /\ crates = << >>

\* the request p is at the name check and the crate it resolved is stored
\* under another spelling of the requested name
AtOtherSpelling(p) ==
    /\ reqs[p].pc = "namecheck"
    /\ TxCrate(reqs[p]).name # reqs[p].name

\* C28: a request that has passed the rights check and whose name resolved
\* to a crate stored under a different spelling is answered "crate was
\* previously named '<stored name>'" and changes neither the crates nor the
\* versions; no step ever changes the name of a crate, and a request that
\* succeeds carries the stored name.
C28_NameNeverAltered ==
    /\ [][\A p \in Procs : (AtOtherSpelling(p) /\ reqs'[p] # reqs[p]) =>
            /\ Has(reqs[p].steps, "rights")
            /\ canon_crate_name(TxCrate(reqs[p]).name) = canon_crate_name(reqs[p].name)
            /\ Finished(p)'
            /\ reqs'[p].result =
                    "crate was previously named '" \o crates[reqs[p].krate].name \o "'"
            /\ crates' = crates
            /\ versions' = versions]_vars
    /\ [][\A i \in Ids(crates) : crates'[i].name = crates[i].name]_vars
    /\ [](\A p \in Procs : (Finished(p) /\ reqs[p].result = "ok") =>
            \E i \in Ids(crates) : crates[i].name = reqs[p].name)

\* the crate is stored as foo and an owner's request for Foo was refused
C28_Witness ==
    \E p \in Procs :
        /\ Finished(p)
        /\ reqs[p].name = "Foo"
        /\ reqs[p].result = "crate was previously named 'foo'"
        /\ Has(reqs[p].steps, "rights")
        /\ \E i \in Ids(crates) : crates[i].name = "foo"

\* ------------------------------------------------------- the manifest checks
\* the three ways a required field comes: absent, empty, given
MetaManifests ==
    { [ GoodManifest EXCEPT !.description = d, !.license = l, !.license_file = f ] :
        d \in {{}, {""}, {"d"}}, l \in {{}, {""}, {"MIT"}, {"bogus"}},
        f \in {{}, {""}, {"LICENSE"}} }

\* a keyword of twenty characters and one of twenty-one
Keyword20 == "aaaaaaaaaaaaaaaaaaaa"

Keyword21 == Keyword20 \o "a"

\* lists of five and of six keywords
Keywords5 == << "k1", "k2", "k3", "k4", Keyword20 >>

Keywords6 == Keywords5 \o << "k6" >>

\* five categories of which two are unknown, five and six known ones
Categories5 == << "c1", "zz", "c2", "yy", "c3" >>

Categories5Known == << "c1", "c2", "c3", "c4", "c5" >>

Categories6 == Categories5Known \o << "c6" >>

\* manifests at and past the limits of the keyword and category lists
ListManifests ==
    { [ GoodManifest EXCEPT !.keywords = k, !.categories = c ] :
        k \in {<< >>, Keywords5, Keywords6, << Keyword21 >>, << "?" >>},
        c \in {<< >>, Categories5, Categories5Known, Categories6} }

\* requests of one owner for one crate, with every manifest above
MetaInputs == [ SyncInputs EXCEPT !.manifests = MetaManifests \cup ListManifests ]

NextMeta == Publish("p1", MetaInputs)

SpecMeta == Init /\ [][NextMeta]_vars

\* the request p leaves the manifest checks in this step
Validated(p) == reqs[p].pc = "validate" /\ reqs'[p].pc # "validate"

\* the request p commits in this step
Committed(p) == reqs[p].pc = "commit" /\ reqs'[p].pc = "done" /\ reqs'[p].result = "ok"

Absent(field) == field \in {{}, {""}}

\* the message that names the missing fields
MissingMessage(names) ==
    "missing or empty metadata fields: " \o names
        \o ". Please see https://doc.rust-lang.org/cargo/reference/manifest.html"
        \o " for how to upload metadata"

MissingMessages ==
    { MissingMessage("description, license"), MissingMessage("description"),
      MissingMessage("license") }

ListsApart(m) ==
    /\ [m EXCEPT !.keywords = << >>, !.categories = << >>] = GoodManifest
    /\ \A i \in DOMAIN m.keywords : m.keywords[i] \notin {"", "?"}

\* the slugs of m that are no category, in the order they were declared
UnknownCategories(m) ==
    [ k \in 1..Cardinality({i \in DOMAIN m.categories : m.categories[i] \notin Categories}) |->
        m.categories[CHOOSE i \in DOMAIN m.categories :
            /\ m.categories[i] \notin Categories
            /\ Cardinality({j \in 1..i : m.categories[j] \notin Categories}) = k] ]

StaleRepo ==
    commit_delete(
        commit_file(
            commit_file(
                commit_file(
                    commit_file([files |-> << >>, head |-> 0, changed |-> << >>],
                                "foo", <<1>>),
                    "bar", <<1>>),
                "baz", <<1>>),
            "foo", <<1, 2>>),
        "baz")

\* the copies of the index files a store may hold that was not kept up to
\* date: none, an older one or the current one of foo, none or the one of bar
StaleReplicas ==
    { [ loc \in {index_location(f) : f \in S} |->
          IF loc = index_location("foo") THEN foo ELSE <<1>> ] :
        S \in SUBSET {"foo", "bar"}, foo \in {<<1>>, <<1, 2>>} }

InitStale ==
    /\ crates = << OwnedBy("foo", "u1"), OwnedBy("bar", "u1"), OwnedBy("baz", "u1") >>
    /\ versions = << [crate_id |-> 1, num |-> 1, license |-> {"MIT"}],
                     [crate_id |-> 2, num |-> 1, license |-> {"MIT"}],
                     [crate_id |-> 3, num |-> 1, license |-> {"MIT"}],
                     [crate_id |-> 1, num |-> 2, license |-> {"MIT"}] >>
    /\ dependencies = << >>
    /\ jobs = << >>
    /\ replica \in StaleReplicas
    /\ blobs = { crate_location("foo", 1), crate_location("bar", 1),
                 crate_location("baz", 1), crate_location("foo", 2) }
                   \cup DOMAIN replica
    /\ tokens = [u \in Users |-> [a \in Actions |-> Burst]]
    /\ arrivals = 0
    /\ reqs = [p \in Procs |-> Idle]
    /\ teams = << >>
    /\ follows = << >>
    /\ repo = StaleRepo
    /\ run = IdleRun

\* the command is run, killed and run again while the index is at rest
NextResync == Run \/ RunInterrupt \/ RunAgain

SpecResync == InitStale /\ [][NextResync]_vars

\* the file set of the run: every index file for a full run, the files a
\* commit after the checkpoint touched for an incremental one
FileSet ==
    IF run.incremental_commit = {} THEN DOMAIN repo.files
    ELSE {f \in DOMAIN repo.changed : \A c \in run.incremental_commit : c < repo.changed[f]}

\* the stored object at loc was written in this step
Written(loc) ==
    /\ loc \in DOMAIN replica'
    /\ loc \notin DOMAIN replica \/ replica'[loc] # replica[loc]

\* C31: once a run has completed, the store holds, for every file of the
\* run's file set (every index file for a full run, the files changed since
\* the checkpoint for an incremental one) that exists at the head, an object
\* equal to the full current contents of the file; every object a step of the
\* run writes is the object of such a file and becomes those contents,
\* whatever it held; and no object is removed.
C31_UploadedObjectsAreTheFiles ==
    /\ [](run.pc = "done" =>
            \A f \in FileSet \cap DOMAIN repo.files :
                /\ index_location(f) \in DOMAIN replica
                /\ replica[index_location(f)] = repo.files[f])
    /\ [][/\ DOMAIN replica \subseteq DOMAIN replica'
          /\ \A loc \in DOMAIN replica' :
                Written(loc) =>
                    \E f \in FileSet \cap DOMAIN repo.files :
                        /\ loc = index_location(f)
                        /\ replica'[loc] = repo.files[f]]_vars

\* an incremental run from commit 3 has completed: it uploaded foo, whose
\* object now holds both records, skipped the deleted baz, and the store
\* still has no object of bar, which did not change after commit 3
C31_Witness ==
    /\ run.pc = "done"
    /\ run.incremental_commit = {3}
    /\ run.uploaded = << "foo" >>
    /\ run.skipped = {"baz"}
    /\ replica[index_location("foo")] = <<1, 2>>
    /\ index_location("bar") \notin DOMAIN replica

\* the files a commit touched after the checkpoint the run was given and not
\* after the commit c, or, for a full run, the files of the tree that no
\* commit after c touched
ChangedUpTo(c) ==
    IF run.incremental_commit = {}
    THEN {f \in DOMAIN repo.files : repo.changed[f] <= c}
    ELSE {f \in DOMAIN repo.changed :
            /\ \A prior \in run.incremental_commit : prior < repo.changed[f]
            /\ repo.changed[f] <= c}

\* C32: a completed run reports, as the next checkpoint, the head it listed
\* its files against, whatever was committed to the index since; every file
\* changed after the checkpoint it was given and up to the one it reports
\* was uploaded or skipped as missing; a run declined at the prompt has
\* uploaded nothing, reports no checkpoint, and its answer writes nothing.
C32_CheckpointIsListedHead ==
    /\ [](run.pc = "done" =>
            /\ run.checkpoint = {run.head}
            /\ \A c \in run.checkpoint :
                  ChangedUpTo(c) \subseteq Range(run.uploaded) \cup run.skipped)
    /\ [](run.pc = "declined" => run.uploaded = << >> /\ run.checkpoint = {})
    /\ [][run'.pc = "declined" /\ run' # run =>
            replica' = replica /\ blobs' = blobs]_vars

\* an incremental run has uploaded one file and skipped another, a crate
\* was deleted while it ran, and it reports the head it was reset to, which
\* is no longer the head of the index
C32_Witness ==
    /\ run.pc = "done"
    /\ run.incremental_commit # {}
    /\ run.uploaded # << >>
    /\ run.skipped # {}
    /\ repo.head > run.head
    /\ run.checkpoint = {run.head}

\* the listed files that exist
Listed == FileSet \cap DOMAIN repo.files

\* the store an uninterrupted run of the command leaves when it starts from
\* the store as it is now: the object of every listed file that exists holds
\* the file, every other object is as it is
UninterruptedResult ==
    [ loc \in DOMAIN replica \cup {index_location(f) : f \in Listed} |->
        IF \E f \in Listed : loc = index_location(f)
        THEN repo.files[CHOOSE f \in Listed : loc = index_location(f)]
        ELSE replica[loc] ]

\* C33: a run that is killed between two uploads reports no checkpoint and
\* the kill itself changes nothing in the store; the command started again
\* with the same checkpoint lists against that checkpoint, and no step of
\* either run changes what an uninterrupted run would leave, so that the
\* completed second run has left exactly that store and reports the head;
\* an upload of a file whose object already holds it changes nothing.
C33_InterruptedRunRepeatable ==
    /\ [](run.pc = "interrupted" => run.checkpoint = {})
    /\ [][run.pc # "interrupted" /\ run'.pc = "interrupted" =>
            replica' = replica /\ blobs' = blobs]_vars
    /\ [][run.pc # "idle" =>
            /\ run'.incremental_commit = run.incremental_commit
            /\ UninterruptedResult' = UninterruptedResult]_vars
    /\ [][/\ run.pc = "upload" /\ run'.pc = "file"
          /\ index_location(CurrentFile(run)) \in DOMAIN replica
          /\ replica[index_location(CurrentFile(run))] = repo.files[CurrentFile(run)]
          => replica' = replica]_vars
    /\ [](run.pc = "done" =>
            /\ replica = UninterruptedResult
            /\ run.checkpoint = {run.head})

\* the first run was killed after an upload; the second run, a full one as
\* the first, has uploaded both files and reports the head
C33_Witness ==
    /\ run.pc = "done"
    /\ run.attempt = 2
    /\ run.incremental_commit = {}
    /\ Len(run.uploaded) = 2
    /\ run.checkpoint = {repo.head}
    /\ replica = UninterruptedResult

\* ------------------------------------------ the update of an existing crate
\* a manifest that passes every check and differs from GoodManifest in
\* every column NewCrate takes from it
OtherManifest ==
    [ GoodManifest EXCEPT !.description = {"d2"}, !.homepage = {},
                          !.documentation = {"https://foo.rs"},
                          !.repository = {"https://foo.rs"} ]

\* requests of both users for both spellings of one name, with either
\* manifest, with and without a readme
UpdateInputs ==
    [ ValidInputs EXCEPT !.manifests = {GoodManifest, OtherManifest},
                         !.readme = BOOLEAN, !.stored = {TRUE} ]

NextUpdate == Publish("p1", UpdateInputs)

SpecUpdate == Init /\ [][NextUpdate]_vars

\* the columns the request p brings for its crate
Requested(p) ==
    [ description |-> reqs[p].manifest.description,
      homepage |-> reqs[p].manifest.homepage,
      documentation |-> reqs[p].manifest.documentation,
      readme |-> reqs[p].readme,
      repository |-> reqs[p].manifest.repository ]

\* the request p has resolved an existing crate and is at a check of lines
\* 223-233
AtCheckOfExisting(p) ==
    /\ reqs[p].pc \in {"rights", "namecheck"}
    /\ ~reqs[p].created

\* C34: a request that resolved an existing crate has, when it comes to the
\* rights check and to the name check, already written its description,
\* homepage, documentation, readme and repository to the row it sees; when
\* one of the two checks refuses it, the committed row of every crate is as
\* it was before; a request that commits leaves its columns in the row.
C34_RefusedUpdateRolledBack ==
    /\ [](\A p \in Procs :
            AtCheckOfExisting(p) => TxCrate(reqs[p]).metadata = Requested(p))
    /\ [][\A p \in Procs :
            /\ (AtCheckOfExisting(p) /\ reqs'[p].pc = "done") =>
                  /\ reqs'[p].result # "ok"
                  /\ crates' = crates
            /\ (Committed(p) /\ ~reqs[p].created) =>
                  crates'[reqs[p].krate].metadata = Requested(p)]_vars

\* a user without rights over the crate asked for foo with another
\* description and was refused: the row of foo keeps its description
C34_Witness ==
    \E p \in Procs :
        /\ reqs[p].pc = "done"
        /\ reqs[p].result = MISSING_RIGHTS_ERROR_MESSAGE
        /\ by_name(reqs[p].name) # 0
        /\ crates[by_name(reqs[p].name)].metadata.description
               # reqs[p].manifest.description

====
